---- MODULE Spec2Model ----
(***************************************************************************)
(* screen-cut: the file index / cache / backup lifecycle.                  *)
(*                                                                         *)
(* The model follows the TypeScript sources: the SQLite tables of          *)
(* DatabaseManager, the three directories the tool writes (origin files,   *)
(* cache artifacts, backup files), and the commands, each as a sequence of *)
(* steps, one per awaited call, with `pc` the position of the one command  *)
(* that runs (the tool is a single process per invocation).  An awaited    *)
(* file or database call either succeeds or throws.                        *)
(*                                                                         *)
(* Time is Date.now() counted in model units; the configured durations and *)
(* the length of a day are scaled down to a few of those units.            *)
(***************************************************************************)
EXTENDS Integers, Sequences, FiniteSets, TLC

\* ------------------------------------------------------------------ bounds

\* Date.now() runs from StartTime to MaxTime.
MaxTime == 5
\* At most MaxFaults awaited calls fail for a reason outside the model (a full
\* disk, a permission, a locked database) in a run.
MaxFaults == 1
\* At most MaxCalls commands are started in a run.
MaxCalls == 3

\* Handlers of the watcher that run at the same time.
MaxHandlers == 3

\* ------------------------------------------------------------ configuration

\* Date.now() of the first invocation: later than one cleanup interval
\* after the epoch, as every real clock is.
StartTime == 2
\* Milliseconds per UTC day (toISOString().split('T')[0]), in model units.
DayLen == 3
\* CONFIG.cacheCleanupInterval (24 hours), in model units
cacheCleanupInterval == 2
\* CONFIG.maxCacheAge (7 days), in model units
maxCacheAge == 2
\* CONFIG.cacheExpirationTime (7 days), in model units
cacheExpirationTime == 2
\* CONFIG.maxBackupAge (30 days), in model units
maxBackupAge == 1
\* CONFIG.maxBackupSets (10), scaled to the few backups of the model
maxBackupSets == 1

\* -------------------------------------------------------------------- paths

\* A path is a sequence of characters; a directory name, the stem of a file
\* name and its extension are kept in one piece each.
Slash == "/"
Desktop == <<Slash, "Desktop">>
Downloads == <<Slash, "Downloads">>

join(dir, name) == dir \o <<Slash>> \o name

LastSlash(p) ==
  LET S == {i \in DOMAIN p : p[i] = Slash}
  IN IF S = {} THEN 0 ELSE CHOOSE i \in S : \A j \in S : j <= i

basename(p) == SubSeq(p, LastSlash(p) + 1, Len(p))

dirname(p) == SubSeq(p, 1, LastSlash(p) - 1)

\* originalPath.replace(/[\/\\]/g, '_')
safePath(p) == [i \in DOMAIN p |-> IF p[i] \in {Slash, "\\"} THEN "_" ELSE p[i]]

\* CONFIG.defaultScreenshotDirs[0] and CONFIG.screenshotDir
targetDir == Desktop
screenshotDir == Desktop

\* The origin paths of the model: two screenshots on the Desktop and one in
\* Downloads that shares its base name with the first.
OriginPaths ==
  {join(Desktop, <<"a", ".png">>), join(Desktop, <<"b", ".png">>),
   join(Downloads, <<"a", ".png">>)}

\* File contents, and what stat().size says of them.
Contents == {"c1", "c2"}
NoFile == "none"
Size(c) == IF c = "c1" THEN 1 ELSE 2

\* new Date().toISOString().split('T')[0]
DateOf(t) == t \div DayLen

\* join(process.cwd(), 'backups', <date>) is modelled by its date, and a backup
\* path by the pair of its directory and its base name.
BackupPathOf(backupDir, filePath) == [dir |-> backupDir, base |-> basename(filePath)]

\* ---------------------------------------------------------------- functions

Put(f, k, v) == [x \in (DOMAIN f) \cup {k} |-> IF x = k THEN v ELSE f[x]]
Drop(f, k) == [x \in (DOMAIN f) \ {k} |-> f[x]]
Empty == [x \in {} |-> 0]
\* The values of an array.
Range(s) == {s[i] : i \in DOMAIN s}

\* An array holds the value.
Has(s, x) == \E i \in DOMAIN s : s[i] = x

Digits == <<"0", "1", "2", "3", "4", "5", "6", "7", "8", "9">>

\* Number.prototype.toString(): the decimal digits.
RECURSIVE toString(_)
toString(n) ==
  IF n < 10 THEN <<Digits[n + 1]>>
  ELSE toString(n \div 10) \o <<Digits[(n % 10) + 1]>>

DigitOf(d) == CHOOSE i \in 0..9 : Digits[i + 1] = d

\* parseInt(s, 10) of a string of digits.
RECURSIVE parseInt(_)
parseInt(s) ==
  IF Len(s) = 1 THEN DigitOf(s[1])
  ELSE parseInt(SubSeq(s, 1, Len(s) - 1)) * 10 + DigitOf(s[Len(s)])

\* -------------------------------------------------------------------- state

VARIABLES
  now,            \* Date.now()
  disk,           \* origin files: path -> content or NoFile
  backupDisk,     \* backup files: backup path -> content
  cacheDisk,      \* cache directory: artifact name -> [content, mtime]
  files,          \* table files: the rows [path, size, lastAccessed]
  backups,        \* table backups, in id order
  deleted_files,  \* table deleted_files: path -> [deletedAt, backupPath, size]
  settings,       \* table settings: key -> value
  pc,             \* position of the running command, "idle" when none runs
  loc,            \* its local variables
  res,            \* what the command reports; done is "no" while it runs
  delContent,     \* history: the content the last deletion of a path removed
  faults,         \* history: injected failures so far
  calls,          \* history: commands started so far
  isWriting,      \* watch: the module-level flag
  handlers,       \* watch: the running 'add' handlers, their position and path
  dbFile          \* watch: the document at CONFIG.dbPath

vars == <<now, disk, backupDisk, cacheDisk, files, backups, deleted_files,
          settings, pc, loc, res, delContent, faults, calls, isWriting,
          handlers, dbFile>>

\* What the watcher reads and writes.
watchVars == <<isWriting, handlers, dbFile>>

\* The tables and directories the commands write.
data == <<disk, backupDisk, cacheDisk, files, backups, deleted_files, settings>>

NoLoc == [cmd |-> "none"]
NoRes == [cmd |-> "none", done |-> "yes"]

\* The screenshots on disk at the first invocation.
InitialDisk ==
  [p \in OriginPaths |-> IF dirname(p) = Desktop THEN "c1" ELSE "c2"]

Init ==
  /\ now = StartTime
  /\ disk = InitialDisk
  /\ backupDisk = Empty
  /\ cacheDisk = Empty
  /\ files = {}
  /\ backups = <<>>
  /\ deleted_files = Empty
  /\ settings = Empty
  /\ pc = "idle"
  /\ loc = NoLoc
  /\ res = NoRes
  /\ delContent = [p \in OriginPaths |-> NoFile]
  /\ faults = 0
  /\ calls = 0
  /\ isWriting = FALSE
  /\ handlers = [h \in 1..MaxHandlers |-> [pc |-> "done", outcome |-> "none"]]
  /\ dbFile = [valid |-> TRUE, screenshots |-> <<>>]

\* -------------------------------------------------------------- environment

\* Time passes between two invocations; what the last one reported has been
\* read by then.
Tick ==
  /\ pc = "idle"
  /\ UNCHANGED watchVars
  /\ now < MaxTime
  /\ now' = now + 1
  /\ res' = NoRes
  /\ UNCHANGED <<data, pc, loc, delContent, faults, calls>>

\* An awaited call fails for an outside reason.
Fault ==
  /\ faults < MaxFaults
  /\ faults' = faults + 1

NoFault == faults' = faults

\* One more command starts.
Call ==
  /\ calls < MaxCalls
  /\ calls' = calls + 1

\* ------------------------------------------------------------ DatabaseManager

\* The paths of the rows of the table files.
TrackedPaths(tbl) == {r.path : r \in tbl}

\* SELECT * FROM files WHERE path = ? (db.get: the first row found)
getFile(tbl, path) == CHOOSE r \in tbl : r.path = path

\* An INSERT into a table without a key for the path: the row is added to
\* whatever is there.
insertFile(tbl, path, size, lastAccessed) ==
  tbl \cup {[path |-> path, size |-> size, lastAccessed |-> lastAccessed]}

\* INSERT OR REPLACE INTO files, path being the PRIMARY KEY: the row that has
\* the path is deleted, then the new one is inserted.
addFile(tbl, path, size, lastAccessed) ==
  {r \in tbl : r.path # path}
    \cup {[path |-> path, size |-> size, lastAccessed |-> lastAccessed]}

\* A DELETE that removes nothing.
deleteNoFile(tbl, path) == tbl

\* DELETE FROM files WHERE path = ?
deleteFile(tbl, path) == {r \in tbl : r.path # path}

\* INSERT OR REPLACE INTO backups: id is the only key, so a row is always added.
addBackup(tbl, originalPath, backupPath, size, createdAt) ==
  Append(tbl, [originalPath |-> originalPath, backupPath |-> backupPath,
               size |-> size, createdAt |-> createdAt])

\* DELETE FROM backups WHERE backup_path = ?
removeBackup(tbl, backupPath) ==
  SelectSeq(tbl, LAMBDA r : r.backupPath # backupPath)

\* INSERT OR REPLACE INTO deleted_files
addDeletedFile(tbl, path, backupPath, size, t) ==
  Put(tbl, path, [deletedAt |-> t, backupPath |-> backupPath, size |-> size])

\* DELETE FROM deleted_files WHERE path = ?
removeFromDeletedFiles(tbl, path) == Drop(tbl, path)

\* CacheManager.removeFromCache: the row of the path, if there is one.
\* A removal that empties the table.
removeAllFromCache(tbl, path) == {}

removeFromCache(tbl, path) ==
  IF path \in TrackedPaths(tbl) THEN deleteFile(tbl, path) ELSE tbl

\* ---------------------------------------------------------------- deleteFiles

\* The loop body with the unlink moved before the backup: the order a deletion
\* that is not write-ahead would have.
UnlinkFirstOrder ==
  <<"df_unlink", "df_backup", "df_addBackup", "df_addDeleted", "df_removeFromCache">>

\* The awaited calls of one file of deleteFiles, in the order of the loop body.
DeleteFilesOrder ==
  <<"df_backup", "df_addBackup", "df_unlink", "df_addDeleted", "df_removeFromCache">>

\* The position after step s of the sequence order, last when s ends it.
After(order, s, last) ==
  LET i == CHOOSE k \in DOMAIN order : order[k] = s
  IN IF i = Len(order) THEN last ELSE order[i + 1]

\* Sequences of at most n elements of S.
RECURSIVE Lists(_, _)
Lists(S, n) ==
  IF n = 0 THEN {<<>>}
  ELSE {<<>>} \cup {<<x>> \o l : x \in S, l \in Lists(S, n - 1)}

Distinct(l) == \A i, j \in DOMAIN l : i # j => l[i] # l[j]

\* The orders of the set S with the greatest key first; elements of equal key
\* come in any order (neither ORDER BY ... DESC nor a sort says more).
RECURSIVE Descending(_, _)
Descending(key, S) ==
  IF S = {} THEN {<<>>}
  ELSE UNION {{<<x>> \o l : l \in Descending(key, S \ {x})} :
                x \in {y \in S : \A z \in S : key[y] >= key[z]}}

\* The arguments of deleteFiles: lists of distinct paths.
FileLists ==
  {l \in Lists(OriginPaths, Cardinality(OriginPaths)) : l # <<>> /\ Distinct(l)}

\* A test of existence that finds every path.
existsAlways(d, file) == TRUE

\* existsSync(file)
existsSync(d, file) == d[file] # NoFile

\* deleteFiles(files): the managers are initialised and the dated backup
\* directory is made.
DeleteFilesCall(fs) ==
  /\ pc = "idle"
  /\ UNCHANGED watchVars
  /\ Call
  /\ pc' = "df_next"
  /\ loc' = [cmd |-> "deleteFiles", queue |-> fs, backupDir |-> DateOf(now)]
  /\ res' = [cmd |-> "deleteFiles", deleted |-> {}, failed |-> {}, done |-> "no"]
  /\ UNCHANGED <<now, data, delContent, faults>>

\* for (const file of files): the next file, skipped when it does not exist;
\* after the last one the result is returned.
DF_Next ==
  /\ pc = "df_next"
  /\ UNCHANGED watchVars
  /\ IF loc.queue = <<>>
       THEN /\ pc' = "idle"
            /\ loc' = NoLoc
            /\ res' = [res EXCEPT !.done = "yes"]
       ELSE LET file == Head(loc.queue) IN
            /\ res' = res
            /\ IF ~existsSync(disk, file)
                 THEN /\ pc' = "df_next"
                      /\ loc' = [loc EXCEPT !.queue = Tail(@)]
                 ELSE /\ pc' = DeleteFilesOrder[1]
                      /\ loc' = [cmd |-> loc.cmd, queue |-> Tail(loc.queue),
                                 backupDir |-> loc.backupDir, file |-> file,
                                 backupPath |-> BackupPathOf(loc.backupDir, file),
                                 size |-> Size(disk[file])]
  /\ UNCHANGED <<now, data, delContent, faults, calls>>

\* A catch around the whole loop instead of one per file: the first failure
\* ends the batch.
DF_CatchOutside ==
  /\ pc' = "idle"
  /\ loc' = NoLoc
  /\ res' = [res EXCEPT !.failed = @ \cup {loc.file}, !.done = "error"]
  /\ UNCHANGED <<now, data, delContent, calls>>

\* catch (error): the file is recorded as failed and the loop goes on.
DF_Catch ==
  /\ pc' = "df_next"
  /\ loc' = loc
  /\ res' = [res EXCEPT !.failed = @ \cup {loc.file}]
  /\ UNCHANGED <<now, data, delContent, calls>>

\* A call that reads the file at path throws when the file is not there
\* (ENOENT), and may fail for an outside reason when it is.
Throws(path) == IF disk[path] = NoFile THEN NoFault ELSE Fault

\* stat(file) and createBackup(file, backupDir)
DF_Backup ==
  /\ pc = "df_backup"
  /\ UNCHANGED watchVars
  /\ \/ /\ disk[loc.file] # NoFile
        /\ backupDisk' = Put(backupDisk, loc.backupPath, disk[loc.file])
        /\ pc' = After(DeleteFilesOrder, "df_backup", "df_next")
        /\ UNCHANGED <<now, disk, cacheDisk, files, backups, deleted_files,
                       settings, loc, res, delContent, faults, calls>>
     \/ Throws(loc.file) /\ DF_Catch

\* dbManager.addBackup
DF_AddBackup ==
  /\ pc = "df_addBackup"
  /\ UNCHANGED watchVars
  /\ \/ /\ backups' = addBackup(backups, loc.file, loc.backupPath, loc.size, now)
        /\ pc' = After(DeleteFilesOrder, "df_addBackup", "df_next")
        /\ UNCHANGED <<now, disk, backupDisk, cacheDisk, files, deleted_files,
                       settings, loc, res, delContent, faults, calls>>
     \/ Fault /\ DF_Catch

\* unlink(file)
DF_Unlink ==
  /\ pc = "df_unlink"
  /\ UNCHANGED watchVars
  /\ \/ /\ disk[loc.file] # NoFile
        /\ disk' = [disk EXCEPT ![loc.file] = NoFile]
        /\ delContent' = [delContent EXCEPT ![loc.file] = disk[loc.file]]
        /\ pc' = After(DeleteFilesOrder, "df_unlink", "df_next")
        /\ UNCHANGED <<now, backupDisk, cacheDisk, files, backups,
                       deleted_files, settings, loc, res, faults, calls>>
     \/ Throws(loc.file) /\ DF_Catch

\* dbManager.addDeletedFile
DF_AddDeleted ==
  /\ pc = "df_addDeleted"
  /\ UNCHANGED watchVars
  /\ \/ /\ deleted_files' =
             addDeletedFile(deleted_files, loc.file, loc.backupPath, loc.size, now)
        /\ pc' = After(DeleteFilesOrder, "df_addDeleted", "df_next")
        /\ UNCHANGED <<now, disk, backupDisk, cacheDisk, files, backups,
                       settings, loc, res, delContent, faults, calls>>
     \/ Fault /\ DF_Catch

\* cacheManager.removeFromCache, then results.deleted.push(file)
DF_RemoveFromCache ==
  /\ pc = "df_removeFromCache"
  /\ UNCHANGED watchVars
  /\ \/ /\ files' = removeFromCache(files, loc.file)
        /\ res' = [res EXCEPT !.deleted = @ \cup {loc.file}]
        /\ pc' = After(DeleteFilesOrder, "df_removeFromCache", "df_next")
        /\ UNCHANGED <<now, disk, backupDisk, cacheDisk, backups,
                       deleted_files, settings, loc, delContent, faults, calls>>
     \/ Fault /\ DF_Catch

DeleteFilesSteps ==
  DF_Next \/ DF_Backup \/ DF_AddBackup \/ DF_Unlink \/ DF_AddDeleted
    \/ DF_RemoveFromCache

\* --------------------------------------------------------------- CleanupManager

\* DatabaseManager.getLastCleanupTime: 0 when the setting is not there.
getLastCleanupTime(tbl) ==
  IF "lastCleanupTime" \in DOMAIN tbl THEN parseInt(tbl["lastCleanupTime"]) ELSE 0

\* A sweep that does not record its time.
keepLastCleanupTime(tbl, t) == tbl

\* DatabaseManager.updateLastCleanupTime
updateLastCleanupTime(tbl, t) == Put(tbl, "lastCleanupTime", toString(t))

\* A check that takes any recorded time for long enough ago.
AlwaysDue(force, t, lastCleanupTime) == force \/ t >= lastCleanupTime

\* checkAndCleanup: force || (now - lastCleanupTime >= CONFIG.cacheCleanupInterval)
CleanupDue(force, t, lastCleanupTime) ==
  force \/ (t - lastCleanupTime >= cacheCleanupInterval)

\* A cleanup run that compacts the store before it sweeps.
VacuumFirstOrder == <<"vacuum", "cleanupCache", "cleanupBackups", "updateTime">>

\* The awaited calls of one cleanup run: cleanup() with its three parts, then
\* updateLastCleanupTime().
CleanupOrder == <<"cleanupCache", "cleanupBackups", "vacuum", "updateTime">>

\* A command of the CLI starts: commander runs the preAction hook first
\* (dbManager.init(), then checkAndCleanup()), then the command's action.
Cli(cmd, arg) ==
  /\ pc = "idle"
  /\ UNCHANGED watchVars
  /\ Call
  /\ pc' = "check"
  /\ loc' = [cmd |-> cmd, arg |-> arg, force |-> FALSE, then |-> cmd, ran |-> FALSE,
             sorted |-> <<>>, vacuum |-> "none"]
  /\ res' = [cmd |-> cmd, deleted |-> {}, failed |-> {}, restored |-> {},
             done |-> "no"]
  /\ UNCHANGED <<now, data, delContent, faults>>

\* An error nobody catches, or process.exit(1): the invocation ends.
Abort ==
  /\ pc' = "idle"
  /\ loc' = NoLoc
  /\ res' = [res EXCEPT !.done = "error"]

\* The command's action returns.
Exit ==
  /\ pc = "exit"
  /\ UNCHANGED watchVars
  /\ pc' = "idle"
  /\ loc' = NoLoc
  /\ res' = [res EXCEPT !.done = "yes"]
  /\ UNCHANGED <<now, data, delContent, faults, calls>>

\* CleanupManager.checkAndCleanup(force), up to its decision; nobody catches
\* a failure of getLastCleanupTime.
CheckAndCleanup ==
  /\ pc = "check"
  /\ UNCHANGED watchVars
  /\ \/ /\ NoFault
        /\ pc' = IF CleanupDue(loc.force, now, getLastCleanupTime(settings))
                   THEN CleanupOrder[1] ELSE loc.then
        /\ UNCHANGED <<loc, res>>
     \/ /\ Fault
        /\ Abort
  /\ UNCHANGED <<now, data, delContent, calls>>

\* The artifacts cleanupCache removes: now - stats.mtimeMs > CONFIG.maxCacheAge
ExpiredArtifacts(dir, t) == {n \in DOMAIN dir : t - dir[n].mtime > maxCacheAge}

Without(f, S) == [x \in (DOMAIN f) \ S |-> f[x]]

\* CleanupManager.cleanupCache: one try around the whole loop, so a failure ends
\* the sweep where it is (readdir gives no order: after any of the expired ones).
CleanupCache ==
  /\ pc = "cleanupCache"
  /\ UNCHANGED watchVars
  /\ \/ /\ cacheDisk' = Without(cacheDisk, ExpiredArtifacts(cacheDisk, now))
        /\ NoFault
     \/ /\ Fault
        /\ \E S \in SUBSET ExpiredArtifacts(cacheDisk, now) :
             cacheDisk' = Without(cacheDisk, S)
  /\ pc' = After(CleanupOrder, "cleanupCache", loc.then)
  /\ UNCHANGED <<now, disk, backupDisk, files, backups, deleted_files, settings,
                 loc, res, delContent, calls>>

\* DatabaseManager.getBackups(): SELECT * FROM backups ORDER BY backup_time DESC
\* (the sort of cleanupBackups is stable and changes nothing then).
getBackups(tbl) ==
  LET key == [i \in DOMAIN tbl |-> tbl[i].createdAt]
  IN {[i \in DOMAIN o |-> tbl[o[i]]] : o \in Descending(key, DOMAIN tbl)}

\* getBackups(originalPath): ... WHERE original_path = ? ORDER BY backup_time DESC
getBackupsOf(tbl, originalPath) ==
  getBackups(SelectSeq(tbl, LAMBDA r : r.originalPath = originalPath))

\* backups.slice(CONFIG.maxBackupSets)
backupsToDelete(sorted) == SubSeq(sorted, maxBackupSets + 1, Len(sorted))

\* now - backup.createdAt > CONFIG.maxBackupAge
BackupExpired(t, createdAt) == t - createdAt > maxBackupAge

\* The loop of cleanupBackups over todo, from the state st = [dir, tbl]: each
\* expired row's file is unlinked and its rows removed; a throw (the file is not
\* there, or the failure `fault` of item `at`) is caught and the loop goes on.
RECURSIVE SweepBackups(_, _, _, _, _)
SweepBackups(todo, t, st, at, fault) ==
  IF todo = <<>> THEN st
  ELSE
    LET b == Head(todo)
        next ==
          IF ~BackupExpired(t, b.createdAt) THEN st
          ELSE IF b.backupPath \notin DOMAIN st.dir THEN st
          ELSE IF at = 1 /\ fault = "unlink" THEN st
          ELSE IF at = 1 /\ fault = "removeBackup"
            THEN [st EXCEPT !.dir = Drop(@, b.backupPath)]
          ELSE [dir |-> Drop(st.dir, b.backupPath),
                tbl |-> removeBackup(st.tbl, b.backupPath)]
    IN SweepBackups(Tail(todo), t, next, at - 1, fault)

\* A sweep that also removes the markers that reference the files it purged.
CleanupBackupsAndMarkers ==
  /\ pc = "cleanupBackups"
  /\ UNCHANGED watchVars
  /\ \E sorted \in getBackups(backups) :
       LET swept == SweepBackups(backupsToDelete(sorted), now,
                                 [dir |-> backupDisk, tbl |-> backups], 0, "none")
           kept == {p \in DOMAIN deleted_files :
                      deleted_files[p].backupPath \in DOMAIN swept.dir}
       IN /\ loc' = [loc EXCEPT !.sorted = sorted]
          /\ backupDisk' = swept.dir
          /\ backups' = swept.tbl
          /\ deleted_files' = [p \in kept |-> deleted_files[p]]
  /\ NoFault
  /\ pc' = "vacuum"
  /\ UNCHANGED <<now, disk, cacheDisk, files, settings, res, delContent, calls>>

\* CleanupManager.cleanupBackups
CleanupBackups ==
  /\ pc = "cleanupBackups"
  /\ UNCHANGED watchVars
  /\ \E sorted \in getBackups(backups) :
       LET todo == backupsToDelete(sorted)
           st == [dir |-> backupDisk, tbl |-> backups]
       IN /\ loc' = [loc EXCEPT !.sorted = sorted]
          /\ \/ /\ NoFault
                /\ backupDisk' = SweepBackups(todo, now, st, 0, "none").dir
                /\ backups' = SweepBackups(todo, now, st, 0, "none").tbl
             \/ /\ Fault
                /\ UNCHANGED <<backupDisk, backups>>
             \/ /\ Fault
                /\ \E at \in 1..Len(todo), fault \in {"unlink", "removeBackup"} :
                     /\ backupDisk' = SweepBackups(todo, now, st, at, fault).dir
                     /\ backups' = SweepBackups(todo, now, st, at, fault).tbl
  /\ pc' = After(CleanupOrder, "cleanupBackups", loc.then)
  /\ UNCHANGED <<now, disk, cacheDisk, files, deleted_files, settings, res,
                 delContent, calls>>

\* A vacuumDatabase without its try: a failure of VACUUM ends the invocation.
VacuumDatabaseThrows ==
  /\ pc = "vacuum"
  /\ UNCHANGED watchVars
  /\ \/ /\ NoFault
        /\ loc' = [loc EXCEPT !.vacuum = "done"]
        /\ pc' = After(CleanupOrder, "vacuum", loc.then)
        /\ res' = res
     \/ /\ Fault
        /\ Abort
  /\ UNCHANGED <<now, data, delContent, calls>>

\* CleanupManager.vacuumDatabase: a failure of VACUUM is caught and logged.
\* loc.vacuum keeps which of the two messages was printed.
VacuumDatabase ==
  /\ pc = "vacuum"
  /\ UNCHANGED watchVars
  /\ \/ /\ NoFault
        /\ loc' = [loc EXCEPT !.vacuum = "done"]
     \/ /\ Fault
        /\ loc' = [loc EXCEPT !.vacuum = "error"]
  /\ pc' = After(CleanupOrder, "vacuum", loc.then)
  /\ UNCHANGED <<now, data, res, delContent, calls>>

\* dbManager.updateLastCleanupTime(), the last call of checkAndCleanup.
UpdateTime ==
  /\ pc = "updateTime"
  /\ UNCHANGED watchVars
  /\ \/ /\ settings' = updateLastCleanupTime(settings, now)
        /\ pc' = After(CleanupOrder, "updateTime", loc.then)
        /\ loc' = [loc EXCEPT !.ran = TRUE]
        /\ UNCHANGED <<now, disk, backupDisk, cacheDisk, files, backups,
                       deleted_files, res, delContent, faults, calls>>
     \/ /\ Fault
        /\ Abort
        /\ UNCHANGED <<now, data, delContent, calls>>

\* The action of `cleanup`: checkAndCleanup(options.force).
CleanupCommand ==
  /\ pc = "cleanup"
  /\ UNCHANGED watchVars
  /\ pc' = "check"
  /\ loc' = [loc EXCEPT !.force = loc.arg, !.then = "exit", !.ran = FALSE,
                         !.vacuum = "none"]
  /\ UNCHANGED <<now, data, res, delContent, faults, calls>>

\* `screen-cut cleanup --force` once more: a run that only removes, started any
\* number of times.
CleanupAgain ==
  /\ pc = "idle"
  /\ UNCHANGED watchVars
  /\ pc' = "check"
  /\ loc' = [cmd |-> "cleanup", arg |-> TRUE, force |-> FALSE, then |-> "cleanup",
             ran |-> FALSE, sorted |-> <<>>, vacuum |-> "none"]
  /\ res' = [cmd |-> "cleanup", deleted |-> {}, failed |-> {}, restored |-> {},
             done |-> "no"]
  /\ UNCHANGED <<now, data, delContent, faults, calls>>

\* The steps of the preAction hook, and the return of a command's action.
HookSteps ==
  CheckAndCleanup \/ CleanupCache \/ CleanupBackups \/ VacuumDatabase
    \/ UpdateTime \/ Exit

CleanupSteps == HookSteps \/ CleanupCommand

\* ---------------------------------------------------------------- CacheManager

\* getCachePath: join(cacheDir, `${safePath}_${Date.now()}`)
getCachePath(originalPath, t) == safePath(originalPath) \o <<"_">> \o toString(t)

\* String.prototype.startsWith
startsWith(f, prefix) ==
  Len(f) >= Len(prefix) /\ SubSeq(f, 1, Len(prefix)) = prefix

\* A search of the cache directory that finds nothing.
findNoCacheFile(dir, originalPath) == {}

\* findCacheFile: the artifacts whose name starts with safePath + '_'; the
\* code takes the first of them in the order of readdir.
findCacheFile(dir, originalPath) ==
  {f \in DOMAIN dir : startsWith(f, safePath(originalPath) \o <<"_">>)}

\* copyFile(originalPath, cachePath) of a file of the given content at time t
cacheCopy(dir, originalPath, content, t) ==
  Put(dir, getCachePath(originalPath, t), [content |-> content, mtime |-> t])

\* An update of the access time that writes nothing.
keepFileAccess(tbl, path, t) == tbl

\* UPDATE files SET last_accessed = ? WHERE path = ?
updateFileAccess(tbl, path, t) ==
  {IF r.path = path THEN [r EXCEPT !.lastAccessed = t] ELSE r : r \in tbl}

\* SELECT * FROM files WHERE last_accessed < ?
getFilesByDate(tbl, cutoffTime) ==
  {r.path : r \in {x \in tbl : x.lastAccessed < cutoffTime}}

\* What a call of the cache API reports; `tracked` tells whether the path had
\* a row when the call began.
CacheRes(cmd, path, done) ==
  [cmd |-> cmd, path |-> path, done |-> done,
   tracked |-> path \in TrackedPaths(files)]

\* An addToCache that writes the row before it copies the file.
AddToCacheRowFirst(path) ==
  /\ pc = "idle"
  /\ UNCHANGED watchVars
  /\ Call
  /\ NoFault
  /\ files' = addFile(files, path, 1, now)
  /\ IF disk[path] = NoFile
       THEN /\ cacheDisk' = cacheDisk
            /\ res' = CacheRes("addToCache", path, "error")
       ELSE /\ cacheDisk' = cacheCopy(cacheDisk, path, disk[path], now)
            /\ res' = CacheRes("addToCache", path, "yes")
  /\ UNCHANGED <<now, disk, backupDisk, backups, deleted_files, settings, pc, loc,
                 delContent>>

\* cacheManager.addToCache(path, size) with the size stat() gives: the copy,
\* then the row; a throw is passed on to the caller.
AddToCache(path) ==
  /\ pc = "idle"
  /\ UNCHANGED watchVars
  /\ Call
  /\ \/ /\ disk[path] = NoFile
        /\ NoFault
        /\ res' = CacheRes("addToCache", path, "error")
        /\ UNCHANGED <<cacheDisk, files>>
     \/ /\ disk[path] # NoFile
        /\ \/ /\ NoFault
              /\ cacheDisk' = cacheCopy(cacheDisk, path, disk[path], now)
              /\ files' = addFile(files, path, Size(disk[path]), now)
              /\ res' = CacheRes("addToCache", path, "yes")
           \/ /\ Fault
              /\ UNCHANGED <<cacheDisk, files>>
              /\ res' = CacheRes("addToCache", path, "error")
           \/ /\ Fault
              /\ cacheDisk' = cacheCopy(cacheDisk, path, disk[path], now)
              /\ files' = files
              /\ res' = CacheRes("addToCache", path, "error")
  /\ UNCHANGED <<now, disk, backupDisk, backups, deleted_files, settings, pc, loc,
                 delContent>>

\* cacheManager.removeFromCache(path), called directly: the row is deleted
\* when getFile finds one; a throw of getFile or deleteFile is passed on.
RemoveFromCache(path) ==
  /\ pc = "idle"
  /\ UNCHANGED watchVars
  /\ Call
  /\ \/ /\ NoFault
        /\ files' = removeFromCache(files, path)
        /\ res' = CacheRes("removeFromCache", path, "yes")
     \/ /\ Fault
        /\ files' = files
        /\ res' = CacheRes("removeFromCache", path, "error")
  /\ UNCHANGED <<now, disk, backupDisk, cacheDisk, backups, deleted_files,
                 settings, pc, loc, delContent>>

\* No artifact: the undefined that getFromCache returns.
NoPath == <<>>

\* What getFromCache reports: cachePath is the value it returns; `file` tells
\* whether getFile found a row.
GetRes(path, done, cachePath) ==
  [cmd |-> "getFromCache", path |-> path, done |-> done, cachePath |-> cachePath,
   file |-> path \in TrackedPaths(files)]

\* cacheManager.getFromCache(path): undefined without a row; an artifact is
\* copied when none is found, and the row goes when the origin is not there
\* (ENOENT); then the access time is updated.
GetFromCache(path) ==
  /\ pc = "idle"
  /\ UNCHANGED watchVars
  /\ Call
  /\ \/ /\ path \notin TrackedPaths(files)
        /\ NoFault
        /\ res' = GetRes(path, "undefined", NoPath)
        /\ UNCHANGED <<cacheDisk, files>>
     \/ /\ path \in TrackedPaths(files)
        /\ findCacheFile(cacheDisk, path) # {}
        /\ \/ /\ NoFault
              /\ files' = updateFileAccess(files, path, now)
              /\ \E cachePath \in findCacheFile(cacheDisk, path) :
                   res' = GetRes(path, "yes", cachePath)
           \/ /\ Fault
              /\ files' = files
              /\ res' = GetRes(path, "error", NoPath)
        /\ cacheDisk' = cacheDisk
     \/ /\ path \in TrackedPaths(files)
        /\ findCacheFile(cacheDisk, path) = {}
        /\ disk[path] = NoFile
        /\ \/ /\ NoFault
              /\ files' = deleteFile(files, path)
              /\ res' = GetRes(path, "undefined", NoPath)
           \/ /\ Fault
              /\ files' = files
              /\ res' = GetRes(path, "error", NoPath)
        /\ cacheDisk' = cacheDisk
     \/ /\ path \in TrackedPaths(files)
        /\ findCacheFile(cacheDisk, path) = {}
        /\ disk[path] # NoFile
        /\ \/ /\ NoFault
              /\ cacheDisk' = cacheCopy(cacheDisk, path, disk[path], now)
              /\ files' = updateFileAccess(files, path, now)
              /\ res' = GetRes(path, "yes", getCachePath(path, now))
           \/ /\ Fault
              /\ UNCHANGED <<cacheDisk, files>>
              /\ res' = GetRes(path, "error", NoPath)
           \/ /\ Fault
              /\ cacheDisk' = cacheCopy(cacheDisk, path, disk[path], now)
              /\ files' = files
              /\ res' = GetRes(path, "error", NoPath)
  /\ UNCHANGED <<now, disk, backupDisk, backups, deleted_files, settings, pc, loc,
                 delContent>>

\* The maxAge arguments of cleanup: none, or one unit.
NoAge == <<>>
MaxAges == {NoAge, <<1>>}

\* maxAge ?? this.cacheExpirationTime
ageOrDefault(maxAge) == IF maxAge = NoAge THEN cacheExpirationTime ELSE maxAge[1]

\* The loop of cleanup over the rows of the paths S: the artifact of the name
\* getCachePath gives now is unlinked if it is there, and the row deleted.
cleanupRows(st, S, t) ==
  [dir |-> Without(st.dir, {getCachePath(q, t) : q \in S}),
   tbl |-> {r \in st.tbl : r.path \notin S}]

\* cacheManager.cleanup(maxAge): one try around the loop, so a failure ends it
\* after any of the rows.
CacheCleanup(maxAge) ==
  /\ pc = "idle"
  /\ UNCHANGED watchVars
  /\ Call
  /\ LET cutoffTime == now - ageOrDefault(maxAge)
         oldFiles == getFilesByDate(files, cutoffTime)
         st == [dir |-> cacheDisk, tbl |-> files]
     IN \/ /\ NoFault
           /\ cacheDisk' = cleanupRows(st, oldFiles, now).dir
           /\ files' = cleanupRows(st, oldFiles, now).tbl
           /\ res' = [cmd |-> "cleanup()", maxAge |-> ageOrDefault(maxAge),
                      old |-> oldFiles, done |-> "yes"]
        \/ /\ Fault
           /\ \E S \in SUBSET oldFiles :
                /\ S # oldFiles \/ oldFiles = {}
                /\ cacheDisk' = cleanupRows(st, S, now).dir
                /\ files' = cleanupRows(st, S, now).tbl
           /\ res' = [cmd |-> "cleanup()", maxAge |-> ageOrDefault(maxAge),
                      old |-> oldFiles, done |-> "error"]
  /\ UNCHANGED <<now, disk, backupDisk, backups, deleted_files, settings, pc, loc,
                 delContent>>

\* ------------------------------------------------------------------- list

\* readdir(CONFIG.screenshotDir), the names that end in .png
ListedFiles ==
  {p \in OriginPaths :
     dirname(p) = screenshotDir /\ disk[p] # NoFile /\ p[Len(p)] = ".png"}

\* addFile of every path of S, with its stat().size and lastAccessed = t
RECURSIVE AddListed(_, _, _)
AddListed(tbl, S, t) ==
  IF S = {} THEN tbl
  ELSE LET p == CHOOSE q \in S : TRUE
       IN AddListed(addFile(tbl, p, Size(disk[p]), t), S \ {p}, t)

\* The action of `list`: every screenshot of the directory is added to the
\* files table; an error ends the invocation (process.exit(1)) where it is.
List ==
  /\ pc = "list"
  /\ UNCHANGED watchVars
  /\ \/ /\ files' = AddListed(files, ListedFiles, now)
        /\ pc' = "exit"
        /\ UNCHANGED <<loc, res, faults>>
     \/ /\ Fault
        /\ \E S \in (SUBSET ListedFiles) \ {ListedFiles} :
             files' = AddListed(files, S, now)
        /\ Abort
  /\ UNCHANGED <<now, disk, backupDisk, cacheDisk, backups, deleted_files, settings,
                 delContent, calls>>

\* ------------------------------------------------------------ deleteCommand

\* getRecentFiles(limit = 5): the default limit, scaled to the few files of
\* the model
RecentLimit == 2

Min(a, b) == IF a < b THEN a ELSE b

\* files.sort((a, b) => b.lastAccessed - a.lastAccessed) over SELECT * FROM
\* files: the orders of the tracked paths, most recently accessed first.
RecentFirst(tbl) ==
  {[i \in DOMAIN o |-> o[i].path] :
     o \in Descending([r \in tbl |-> r.lastAccessed], tbl)}

\* CacheManager.getRecentFiles(limit), from one of those orders
getRecentFiles(sorted, limit) == SubSeq(sorted, 1, Min(limit, Len(sorted)))

\* count ? parseInt(count) : 1
requestedCount(count) == IF count = <<>> THEN 1 ELSE parseInt(count)

\* The awaited calls of one file of deleteCommand, in the order of the loop body.
DeleteCommandOrder == <<"dc_copy", "dc_addBackup", "dc_unlink">>

\* The action of `delete`, up to its loop; `shortfall` is what the
\* preparation line and the summary say of a request for more files than
\* there were.
DeleteCommand ==
  /\ pc = "delete"
  /\ UNCHANGED watchVars
  /\ \E sorted \in RecentFirst(files) :
       LET recent == getRecentFiles(sorted, RecentLimit)
           n == requestedCount(loc.arg)
           actualCount == Min(n, Len(recent))
       IN IF recent = <<>>
            THEN pc' = "exit" /\ loc' = loc /\ res' = res
          ELSE IF n <= 0
            THEN Abort
          ELSE /\ pc' = "dc_next"
               /\ loc' = [cmd |-> loc.cmd, backupDir |-> DateOf(now),
                          queue |-> SubSeq(recent, 1, actualCount),
                          shortfall |-> actualCount < n]
               /\ res' = res
  /\ UNCHANGED <<now, data, delContent, faults, calls>>

\* for (const file of filesToDelete); the summary after the last one.
DC_Next ==
  /\ pc = "dc_next"
  /\ UNCHANGED watchVars
  /\ IF loc.queue = <<>>
       THEN pc' = "exit" /\ loc' = loc
       ELSE /\ pc' = DeleteCommandOrder[1]
            /\ loc' = [cmd |-> loc.cmd, backupDir |-> loc.backupDir,
                       queue |-> Tail(loc.queue), file |-> Head(loc.queue),
                       backupPath |-> BackupPathOf(loc.backupDir, Head(loc.queue)),
                       size |-> getFile(files, Head(loc.queue)).size]
  /\ UNCHANGED <<now, data, res, delContent, faults, calls>>

\* catch (error): failureCount++
DC_Catch ==
  /\ pc' = "dc_next"
  /\ loc' = loc
  /\ res' = [res EXCEPT !.failed = @ \cup {loc.file}]
  /\ UNCHANGED <<now, data, delContent, calls>>

\* mkdir(backupDir) and copyFile(file.path, backupPath)
DC_Copy ==
  /\ pc = "dc_copy"
  /\ UNCHANGED watchVars
  /\ \/ /\ disk[loc.file] # NoFile
        /\ backupDisk' = Put(backupDisk, loc.backupPath, disk[loc.file])
        /\ pc' = After(DeleteCommandOrder, "dc_copy", "dc_next")
        /\ UNCHANGED <<now, disk, cacheDisk, files, backups, deleted_files,
                       settings, loc, res, delContent, faults, calls>>
     \/ Throws(loc.file) /\ DC_Catch

\* dbManager.addBackup
DC_AddBackup ==
  /\ pc = "dc_addBackup"
  /\ UNCHANGED watchVars
  /\ \/ /\ backups' = addBackup(backups, loc.file, loc.backupPath, loc.size, now)
        /\ pc' = After(DeleteCommandOrder, "dc_addBackup", "dc_next")
        /\ UNCHANGED <<now, disk, backupDisk, cacheDisk, files, deleted_files,
                       settings, loc, res, delContent, faults, calls>>
     \/ Fault /\ DC_Catch

\* unlink(file.path), then successCount++
DC_Unlink ==
  /\ pc = "dc_unlink"
  /\ UNCHANGED watchVars
  /\ \/ /\ disk[loc.file] # NoFile
        /\ disk' = [disk EXCEPT ![loc.file] = NoFile]
        /\ delContent' = [delContent EXCEPT ![loc.file] = disk[loc.file]]
        /\ res' = [res EXCEPT !.deleted = @ \cup {loc.file}]
        /\ pc' = After(DeleteCommandOrder, "dc_unlink", "dc_next")
        /\ UNCHANGED <<now, backupDisk, cacheDisk, files, backups,
                       deleted_files, settings, loc, faults, calls>>
     \/ Throws(loc.file) /\ DC_Catch

DeleteCommandSteps ==
  DeleteCommand \/ DC_Next \/ DC_Copy \/ DC_AddBackup \/ DC_Unlink

\* The --number values of the model: none, "1", "2", "3", and the invalid "0".
Counts == {<<>>, <<"1">>, <<"2">>, <<"3">>, <<"0">>}

\* ------------------------------------------------------- restore (index.ts)

\* The options of `restore`: --list, --number n, --path p, or none of them.
RestoreOptions ==
  {[opt |-> "list"], [opt |-> "none"]}
    \cup {[opt |-> "number", number |-> n] : n \in {<<"1">>, <<"2">>, <<"0">>}}
    \cup {[opt |-> "path", path |-> p] : p \in OriginPaths}

\* copyFile(backup.backupPath, backup.originalPath)
copyBack(d, dir, backup) == [d EXCEPT ![backup.originalPath] = dir[backup.backupPath]]

\* The action of `restore`: --list prints; --number starts its loop; --path
\* copies the newest backup of the path back; anything thrown, and a missing
\* or invalid option, ends the invocation with process.exit(1).
RestoreCommand ==
  /\ pc = "restore"
  /\ UNCHANGED watchVars
  /\ LET o == loc.arg IN
     \/ /\ o.opt = "list"
        /\ pc' = "exit" /\ loc' = loc /\ res' = res /\ disk' = disk
        /\ NoFault
     \/ /\ o.opt = "none"
        /\ Abort /\ disk' = disk
        /\ NoFault
     \/ /\ o.opt = "number"
        /\ disk' = disk
        /\ NoFault
        /\ IF parseInt(o.number) <= 0 THEN Abort
           ELSE IF backups = <<>> THEN pc' = "exit" /\ loc' = loc /\ res' = res
           ELSE \E sorted \in getBackups(backups) :
                  /\ pc' = "rn_item"
                  /\ loc' = [cmd |-> loc.cmd,
                             queue |-> SubSeq(sorted, 1,
                                              Min(parseInt(o.number), Len(sorted)))]
                  /\ res' = res
     \/ /\ o.opt = "path"
        /\ IF getBackupsOf(backups, o.path) = {<<>>}
             THEN Abort /\ disk' = disk /\ NoFault
             ELSE \E sorted \in getBackupsOf(backups, o.path) :
                    LET backup == sorted[1] IN
                    \/ /\ backup.backupPath \in DOMAIN backupDisk
                       /\ NoFault
                       /\ disk' = copyBack(disk, backupDisk, backup)
                       /\ res' = [res EXCEPT !.restored = @ \cup {backup.originalPath}]
                       /\ pc' = "exit"
                       /\ loc' = loc
                    \/ /\ IF backup.backupPath \in DOMAIN backupDisk
                            THEN Fault ELSE NoFault
                       /\ Abort
                       /\ disk' = disk
  /\ UNCHANGED <<now, backupDisk, cacheDisk, files, backups, deleted_files,
                 settings, delContent, calls>>

\* for (const backup of toRestore): the copy, its failure caught and printed.
RN_Item ==
  /\ pc = "rn_item"
  /\ UNCHANGED watchVars
  /\ IF loc.queue = <<>>
       THEN pc' = "exit" /\ loc' = loc /\ res' = res /\ disk' = disk /\ NoFault
       ELSE LET backup == Head(loc.queue) IN
            /\ pc' = "rn_item"
            /\ loc' = [loc EXCEPT !.queue = Tail(@)]
            /\ \/ /\ backup.backupPath \in DOMAIN backupDisk
                  /\ NoFault
                  /\ disk' = copyBack(disk, backupDisk, backup)
                  /\ res' = [res EXCEPT !.restored = @ \cup {backup.originalPath}]
               \/ /\ IF backup.backupPath \in DOMAIN backupDisk
                       THEN Fault ELSE NoFault
                  /\ disk' = disk
                  /\ res' = [res EXCEPT !.failed = @ \cup {backup.originalPath}]
  /\ UNCHANGED <<now, backupDisk, cacheDisk, files, backups, deleted_files,
                 settings, delContent, calls>>

RestoreCommandSteps == RestoreCommand \/ RN_Item

\* ----------------------------------------------------- restore (restore.ts)

\* What ~/.Trash holds when restore() runs: nothing, or one file that has the
\* name of a screenshot.
FileNames == {basename(p) : p \in OriginPaths}
TrashDirs == {Empty} \cup {[n \in {name} |-> "c2"] : name \in FileNames}

\* findInTrash(filename): files.find(f => f === filename)
findInTrash(trashDir, filename) == filename \in DOMAIN trashDir

\* SELECT * FROM deleted_files ORDER BY deleted_at DESC LIMIT 50
getRecentlyDeleted(tbl) ==
  LET orders == Descending([q \in DOMAIN tbl |-> tbl[q].deletedAt], DOMAIN tbl)
  IN {[i \in DOMAIN o |-> [path |-> o[i], backupPath |-> tbl[o[i]].backupPath,
                            size |-> tbl[o[i]].size]] : o \in orders}

\* The first k awaited calls of one restoration of the marker of path from a
\* file of the given content, applied to st = [disk, dir, tbl, del]:
\* copyFile to targetPath; addToCache (the copy, then the row); addFile;
\* removeFromDeletedFiles.
RestoreStages == 5
\* The calls from the third on come after the row of addToCache is written.
RowStage == 3
wroteRow(k) == k >= RowStage
restoreCalls(st, path, content, t, k) ==
  LET targetPath == join(targetDir, basename(path))
      row == addFile(st.tbl, targetPath, Size(content), t)
  IN [disk |-> IF k >= 1 THEN [st.disk EXCEPT ![targetPath] = content] ELSE st.disk,
      dir |-> IF k >= 2 THEN cacheCopy(st.dir, targetPath, content, t) ELSE st.dir,
      tbl |-> IF wroteRow(k) THEN row ELSE st.tbl,
      del |-> IF k >= RestoreStages THEN removeFromDeletedFiles(st.del, path)
              ELSE st.del]

\* A Trash branch that writes the TrackedFile row of the target although the
\* name is not in the Trash.
fromTrashWithRow(st, file, trashDir, t, used, row) ==
  LET targetPath == join(targetDir, basename(file.path)) IN
  IF basename(file.path) \in DOMAIN trashDir
    THEN {[st |-> restoreCalls(st, file.path, trashDir[basename(file.path)], t,
                               RestoreStages),
           ok |-> TRUE, faults |-> used, source |-> "trash", row |-> TRUE]}
    ELSE {[st |-> [st EXCEPT !.tbl = addFile(@, targetPath, file.size, t)],
           ok |-> FALSE, faults |-> used, source |-> "none", row |-> TRUE]}

\* What the Trash branch makes of st after `used` failures, `row` telling
\* whether a row has been written by then: failed when the name is not in the
\* Trash or a call throws, restored otherwise.
fromTrash(st, file, trashDir, t, used, row) ==
  LET filename == basename(file.path) IN
  IF ~findInTrash(trashDir, filename)
    THEN {[st |-> st, ok |-> FALSE, faults |-> used, source |-> "none", row |-> row]}
    ELSE {[st |-> restoreCalls(st, file.path, trashDir[filename], t, RestoreStages),
           ok |-> TRUE, faults |-> used, source |-> "trash", row |-> TRUE]}
         \cup {[st |-> restoreCalls(st, file.path, trashDir[filename], t, k),
                 ok |-> FALSE, faults |-> used + 1, source |-> "none",
                 row |-> row \/ wroteRow(k)] : k \in 0..(RestoreStages - 1)}

\* The outcomes of one turn of the loop over recentlyDeleted: from the backup
\* when it exists and no call throws, otherwise what the Trash branch gives.
restoreOne(st, file, dir, trashDir, t) ==
  IF file.backupPath \in DOMAIN dir
    THEN {[st |-> restoreCalls(st, file.path, dir[file.backupPath], t, RestoreStages),
           ok |-> TRUE, faults |-> 0, source |-> "backup", row |-> TRUE]}
         \cup UNION {fromTrash(restoreCalls(st, file.path, dir[file.backupPath], t, k),
                                file, trashDir, t, 1, wroteRow(k)) :
                        k \in 0..(RestoreStages - 1)}
    ELSE fromTrash(st, file, trashDir, t, 0, FALSE)

\* A list of results that keeps one entry per name.
pushNew(arr, x) == IF Has(arr, x) THEN arr ELSE Append(arr, x)

\* results.restored.push(targetPath), results.failed.push(filename)
push(arr, x) == Append(arr, x)

\* restore(): the managers are initialised and the markers read, newest first.
Restore(trashDir) ==
  /\ pc = "idle"
  /\ UNCHANGED watchVars
  /\ Call
  /\ \E recentlyDeleted \in getRecentlyDeleted(deleted_files) :
       loc' = [cmd |-> "restore()", queue |-> recentlyDeleted, trash |-> trashDir]
  /\ pc' = "rs_item"
  /\ res' = [cmd |-> "restore()", restored |-> <<>>, failed |-> <<>>, done |-> "no",
             from |-> Empty]
  /\ UNCHANGED <<now, data, delContent, faults>>

\* for (const file of recentlyDeleted), and the return of the results after
\* the last one. res.restored and res.failed are the arrays of the results,
\* in the order of the pushes. res.from keeps, per marker path, how its turn went: where it
\* was restored from, whether a TrackedFile row was written, and whether the
\* backup file was there.
RS_Item ==
  /\ pc = "rs_item"
  /\ UNCHANGED watchVars
  /\ IF loc.queue = <<>>
       THEN /\ pc' = "idle"
            /\ loc' = NoLoc
            /\ res' = [res EXCEPT !.done = "yes"]
            /\ UNCHANGED <<disk, cacheDisk, files, deleted_files, faults>>
       ELSE LET file == Head(loc.queue)
                st == [disk |-> disk, dir |-> cacheDisk, tbl |-> files,
                       del |-> deleted_files]
            IN \E o \in restoreOne(st, file, backupDisk, loc.trash, now) :
                 /\ faults + o.faults <= MaxFaults
                 /\ faults' = faults + o.faults
                 /\ disk' = o.st.disk
                 /\ cacheDisk' = o.st.dir
                 /\ files' = o.st.tbl
                 /\ deleted_files' = o.st.del
                 /\ pc' = "rs_item"
                 /\ loc' = [loc EXCEPT !.queue = Tail(@)]
                 /\ res' =
                      LET how == [source |-> o.source, row |-> o.row,
                                  backup |-> file.backupPath \in DOMAIN backupDisk]
                      IN IF o.ok
                           THEN [res EXCEPT
                                   !.restored = push(@, join(targetDir, basename(file.path))),
                                   !.from = Put(@, file.path, how)]
                           ELSE [res EXCEPT !.failed = push(@, basename(file.path)),
                                            !.from = Put(@, file.path, how)]
  /\ UNCHANGED <<now, backupDisk, backups, settings, delContent, calls>>

\* ------------------------------------------------- DatabaseManager, direct use

\* A table that is dropped and made again.
recreateTable(tbl, empty) == empty

\* CREATE TABLE IF NOT EXISTS: a table that exists is left as it is.
createTable(tbl, empty) == tbl

\* The operations that begin with
\* `if (!this.db) throw new Error('Database not initialized')`, getSetting and
\* setSetting also through getLastCleanupTime and updateLastCleanupTime.
GuardedOps ==
  {"addFile", "getFile", "deleteFile", "updateFileAccess", "getFilesByDate",
   "getAllFiles", "addBackup", "getBackups", "removeBackup", "addDeletedFile",
   "getRecentlyDeleted", "removeFromDeletedFiles", "getSetting", "setSetting",
   "getLastCleanupTime", "updateLastCleanupTime"}

\* vacuum is `await this.db?.run('VACUUM')` and nothing else;
\* getRecentlyDeletedFiles catches what it throws and returns [].
UnguardedOps == {"vacuum", "getRecentlyDeletedFiles"}

\* The operations that take a path.
PathOps ==
  {"addFile", "getFile", "deleteFile", "updateFileAccess", "addBackup",
   "getBackups", "removeBackup", "addDeletedFile", "removeFromDeletedFiles"}

\* The calls of the model: an operation, with a path when it takes one.
StoreOps ==
  {[name |-> n, path |-> p] : n \in PathOps, p \in OriginPaths}
    \cup {[name |-> n] : n \in (GuardedOps \cup UnguardedOps) \ PathOps}

\* The tables after the operation op at time t, called by a program that
\* backs up into the dated directory and passes Date.now() for every time.
StoreEffect(op, t) ==
  LET n == op.name
      backupPath == BackupPathOf(DateOf(t), op.path)
  IN [files |->
        IF n = "addFile" THEN addFile(files, op.path, Size("c1"), t)
        ELSE IF n = "deleteFile" THEN deleteFile(files, op.path)
        ELSE IF n = "updateFileAccess" THEN updateFileAccess(files, op.path, t)
        ELSE files,
      backups |->
        IF n = "addBackup" THEN addBackup(backups, op.path, backupPath, Size("c1"), t)
        ELSE IF n = "removeBackup" THEN removeBackup(backups, backupPath)
        ELSE backups,
      deleted_files |->
        IF n = "addDeletedFile"
          THEN addDeletedFile(deleted_files, op.path, backupPath, Size("c1"), t)
        ELSE IF n = "removeFromDeletedFiles"
          THEN removeFromDeletedFiles(deleted_files, op.path)
        ELSE deleted_files,
      settings |->
        IF n \in {"setSetting", "updateLastCleanupTime"}
          THEN updateLastCleanupTime(settings, t)
        ELSE settings]

\* What a call of the store reports.
StoreRes(op, done, err) == [cmd |-> "store", op |-> op, done |-> done, err |-> err]

\* new DatabaseManager(): db is null.
NewDatabaseManager ==
  /\ pc = "idle"
  /\ UNCHANGED watchVars
  /\ pc' = "store"
  /\ loc' = [cmd |-> "store", db |-> "null"]
  /\ res' = StoreRes("new", "yes", "none")
  /\ UNCHANGED <<now, data, delContent, faults, calls>>

\* DatabaseManager.init(): the connection is opened, then the four tables are
\* created if they do not exist. A failure is thrown on; db is set already
\* when it is the creation of a table that failed.
DbInit ==
  /\ pc = "store"
  /\ UNCHANGED watchVars
  /\ files' = createTable(files, {})
  /\ backups' = createTable(backups, <<>>)
  /\ deleted_files' = createTable(deleted_files, Empty)
  /\ settings' = createTable(settings, Empty)
  /\ \/ /\ NoFault
        /\ loc' = [loc EXCEPT !.db = "open"]
        /\ res' = StoreRes("init", "yes", "none")
     \/ /\ Fault
        /\ loc' = loc \/ loc' = [loc EXCEPT !.db = "open"]
        /\ res' = StoreRes("init", "error", "other")
  /\ UNCHANGED <<now, disk, backupDisk, cacheDisk, pc, delContent, calls>>

\* One operation of the persistence layer, called on the object as it is.
StoreCall(op) ==
  /\ pc = "store"
  /\ UNCHANGED watchVars
  /\ Call
  /\ \/ /\ loc.db = "null"
        /\ NoFault
        /\ UNCHANGED <<files, backups, deleted_files, settings>>
        /\ res' = IF op.name \in GuardedOps
                    THEN StoreRes(op.name, "error", "notInitialized")
                    ELSE StoreRes(op.name, "yes", "none")
     \/ /\ loc.db = "open"
        /\ NoFault
        /\ files' = StoreEffect(op, now).files
        /\ backups' = StoreEffect(op, now).backups
        /\ deleted_files' = StoreEffect(op, now).deleted_files
        /\ settings' = StoreEffect(op, now).settings
        /\ res' = StoreRes(op.name, "yes", "none")
     \/ /\ loc.db = "open"
        /\ Fault
        /\ UNCHANGED <<files, backups, deleted_files, settings>>
        /\ res' = IF op.name = "getRecentlyDeletedFiles"
                    THEN StoreRes(op.name, "yes", "none")
                    ELSE StoreRes(op.name, "error", "other")
  /\ UNCHANGED <<now, disk, backupDisk, cacheDisk, pc, loc, delContent>>

\* The program that held the object ends.
StoreEnd ==
  /\ pc = "store"
  /\ UNCHANGED watchVars
  /\ pc' = "idle"
  /\ loc' = NoLoc
  /\ res' = NoRes
  /\ UNCHANGED <<now, data, delContent, faults, calls>>

StoreActions ==
  NewDatabaseManager \/ DbInit \/ (\E op \in StoreOps : StoreCall(op)) \/ StoreEnd

\* ------------------------------------------------------------------ watch

Handlers == 1..MaxHandlers

\* The paths chokidar reports: a screenshot on the Desktop, one of the same
\* file name in Downloads, and a file that is no screenshot.
Screenshot1 == <<"Screenshot 2024-01-01 at 10.00.00", ".png">>
WatchPaths ==
  {join(Desktop, Screenshot1), join(Downloads, Screenshot1),
   join(Desktop, <<"b", ".png">>)}

\* CONFIG.screenshotPatterns.some(pattern => pattern.test(filename)), for the
\* file names of the model.
isScreenshot(filename) == filename = Screenshot1

\* A handler that does not look at the flag.
neverBusy(flag) == FALSE

\* while (isWriting): the handler has to wait.
busy(flag) == flag

\* A test that finds no entry.
existsNever(db, path) == FALSE

\* db.screenshots.some(s => s.path === path)
exists(db, path) == \E i \in DOMAIN db : db[i].path = path

\* The entry pushed for a path (its id and createdAt are left out).
screenshot(path) == [path |-> path, filename |-> basename(path)]

\* A file that JSON.parse rejects: what a failed writeFile may leave.
Truncated == [valid |-> FALSE, screenshots |-> <<>>]

\* The handler h ends with the given outcome.
Ended(h, outcome) ==
  handlers' = [handlers EXCEPT ![h] = [pc |-> "done", outcome |-> outcome]]

\* try { isWriting = true; ... await readFile: the handler h holds the flag.
Enter(h, path) ==
  /\ isWriting' = TRUE
  /\ handlers' = [handlers EXCEPT ![h] = [pc |-> "read", path |-> path]]

\* watcher.on('add'): the event of a path starts a handler, which returns at
\* once for a file that is no screenshot, waits when the flag is set, and
\* otherwise sets it, all before its first await.
Add(h, path) ==
  /\ handlers[h].pc = "done"
  /\ IF ~isScreenshot(basename(path))
       THEN Ended(h, "ignored") /\ isWriting' = isWriting
     ELSE IF busy(isWriting)
       THEN /\ handlers' = [handlers EXCEPT ![h] = [pc |-> "wait", path |-> path]]
            /\ isWriting' = isWriting
     ELSE Enter(h, path)
  /\ UNCHANGED <<now, data, pc, loc, res, delContent, faults, calls, dbFile>>

\* The timer of a waiting handler fires: it goes on waiting while the flag is
\* set, and sets it otherwise.
Wake(h) ==
  /\ handlers[h].pc = "wait"
  /\ IF busy(isWriting) THEN UNCHANGED <<isWriting, handlers>>
     ELSE Enter(h, handlers[h].path)
  /\ UNCHANGED <<now, data, pc, loc, res, delContent, faults, calls, dbFile>>

\* JSON.parse(await readFile(CONFIG.dbPath)) and the test for the path: with
\* the entry there the flag is cleared and the handler returns; a throw is
\* caught and logged and finally clears the flag.
ReadFile(h) ==
  /\ handlers[h].pc = "read"
  /\ \/ /\ dbFile.valid
        /\ NoFault
        /\ IF exists(dbFile.screenshots, handlers[h].path)
             THEN Ended(h, "present") /\ isWriting' = FALSE
             ELSE /\ handlers' =
                       [handlers EXCEPT ![h] =
                          [pc |-> "write", path |-> @.path,
                           db |-> Append(dbFile.screenshots, screenshot(@.path))]]
                  /\ isWriting' = isWriting
     \/ /\ IF dbFile.valid THEN Fault ELSE NoFault
        /\ Ended(h, "error")
        /\ isWriting' = FALSE
  /\ UNCHANGED <<now, data, pc, loc, res, delContent, calls, dbFile>>

\* A write without the finally block: the flag stays set.
WriteFileKeepsFlag(h) ==
  /\ handlers[h].pc = "write"
  /\ \/ /\ NoFault
        /\ dbFile' = [valid |-> TRUE, screenshots |-> handlers[h].db]
        /\ Ended(h, "written")
     \/ /\ Fault
        /\ dbFile' \in {dbFile, Truncated}
        /\ Ended(h, "error")
  /\ isWriting' = isWriting
  /\ UNCHANGED <<now, data, pc, loc, res, delContent, calls>>

\* await writeFile(CONFIG.dbPath, JSON.stringify(db)): finally clears the
\* flag; a write that fails leaves the old document or a truncated one.
WriteFile(h) ==
  /\ handlers[h].pc = "write"
  /\ \/ /\ NoFault
        /\ dbFile' = [valid |-> TRUE, screenshots |-> handlers[h].db]
        /\ Ended(h, "written")
     \/ /\ Fault
        /\ dbFile' \in {dbFile, Truncated}
        /\ Ended(h, "error")
  /\ isWriting' = FALSE
  /\ UNCHANGED <<now, data, pc, loc, res, delContent, calls>>

\* An event arrives.
AddActions == \E h \in Handlers, path \in WatchPaths : Add(h, path)

\* A handler goes on after an await.
HandlerSteps == \E h \in Handlers : Wake(h) \/ ReadFile(h) \/ WriteFile(h)

WatchActions == AddActions \/ HandlerSteps

\* ------------------------------------------------------------ specifications

DeleteFilesActions == (\E fs \in FileLists : DeleteFilesCall(fs)) \/ DeleteFilesSteps

CleanupActions ==
  (\E force \in BOOLEAN : Cli("cleanup", force)) \/ CleanupSteps

ListActions == Cli("list", <<>>) \/ List

DeleteCommandActions ==
  (\E count \in Counts : Cli("delete", count)) \/ DeleteCommandSteps

RestoreCommandActions ==
  (\E o \in RestoreOptions : Cli("restore", o)) \/ RestoreCommandSteps

RestoreActions == (\E trashDir \in TrashDirs : Restore(trashDir)) \/ RS_Item

CacheActions ==
  \/ \E path \in OriginPaths : AddToCache(path)
  \/ \E path \in OriginPaths : GetFromCache(path)
  \/ \E path \in OriginPaths : RemoveFromCache(path)
  \/ \E maxAge \in MaxAges : CacheCleanup(maxAge)

\* The commands and calls of the tool; none of them touches what the watcher
\* reads and writes.
Commands ==
  \/ Tick
  \/ DeleteFilesActions
  \/ CleanupActions
  \/ ListActions
  \/ DeleteCommandActions
  \/ RestoreCommandActions
  \/ RestoreActions
  \/ CacheActions
  \/ StoreActions

\* The whole tool.
Next == Commands \/ WatchActions

Spec == Init /\ [][Next]_vars

\* Deletion: deleteFiles, and `list` and `delete` of the CLI behind the hook.
NextDeletion ==
  Tick \/ DeleteFilesActions \/ ListActions \/ DeleteCommandActions \/ HookSteps

SpecDeletion == Init /\ [][NextDeletion]_vars

\* Restoration by the CLI: deleteFiles and `restore` behind the hook.
NextRestoreCommand ==
  Tick \/ DeleteFilesActions \/ RestoreCommandActions \/ HookSteps

SpecRestoreCommand == Init /\ [][NextRestoreCommand]_vars

\* Restoration by the scan of the markers: deleteFiles, restore(), and
\* `cleanup` of the CLI.
NextRestore ==
  Tick \/ DeleteFilesActions \/ RestoreActions \/ CleanupActions

SpecRestore == Init /\ [][NextRestore]_vars

\* Retention of backups: deleteFiles and `cleanup` of the CLI.
NextRetention ==
  Tick \/ DeleteFilesActions \/ CleanupActions

SpecRetention == Init /\ [][NextRetention]_vars

\* Retention swept again and again: deleteFiles of one file at a time, and
\* `cleanup --force` without end.
NextSweeps ==
  \/ Tick
  \/ \E path \in OriginPaths : DeleteFilesCall(<<path>>)
  \/ DeleteFilesSteps
  \/ CleanupAgain
  \/ CleanupSteps

\* A command that runs goes on to its end, and `cleanup` is started again
\* whenever no command runs.
SpecSweepsFair ==
  /\ Init /\ [][NextSweeps]_vars
  /\ WF_vars(DeleteFilesSteps)
  /\ WF_vars(CleanupSteps)
  /\ WF_vars(CleanupAgain)

\* The `delete` command and the reads of the cache, over files tracked by
\* `list` and by addToCache.
NextDeleteCommand ==
  \/ Tick
  \/ \E path \in OriginPaths : AddToCache(path)
  \/ \E path \in OriginPaths : GetFromCache(path)
  \/ ListActions
  \/ DeleteCommandActions
  \/ HookSteps

SpecDeleteCommand == Init /\ [][NextDeleteCommand]_vars

\* The ways a TrackedFile row is written and removed: addToCache, `list`,
\* deleteFiles of one file and restore().
NextTracking ==
  \/ Tick
  \/ \E path \in OriginPaths : AddToCache(path)
  \/ ListActions
  \/ HookSteps
  \/ \E path \in OriginPaths : DeleteFilesCall(<<path>>)
  \/ DeleteFilesSteps
  \/ RestoreActions

SpecTracking == Init /\ [][NextTracking]_vars

\* The persistence layer, called directly.
NextStore ==
  Tick \/ StoreActions

SpecStore == Init /\ [][NextStore]_vars

\* Restoration in batches: deleteFiles of one file, then `restore` of the CLI
\* and restore().
NextBatchRestore ==
  \/ Tick
  \/ \E path \in OriginPaths : DeleteFilesCall(<<path>>)
  \/ DeleteFilesSteps
  \/ RestoreCommandActions
  \/ HookSteps
  \/ RestoreActions

SpecBatchRestore == Init /\ [][NextBatchRestore]_vars

\* The watcher: the 'add' events and the handlers they start.
NextWatch == WatchActions

SpecWatch == Init /\ [][NextWatch]_vars

\* The watcher with its scheduling: a timer that is due fires, and a read or
\* write that was started ends.
SpecWatchFair ==
  /\ SpecWatch
  /\ \A h \in Handlers :
       WF_vars(Wake(h)) /\ WF_vars(ReadFile(h)) /\ WF_vars(WriteFile(h))

\* A file /Desktop_a.png, whose path has the safe name of /Desktop/a.png.
CollidingPath == <<Slash, "Desktop", "_", "a", ".png">>

CachePaths == OriginPaths \cup {CollidingPath}

\* The first invocation with that file on disk as well.
InitNames ==
  /\ now = StartTime
  /\ disk = [p \in CachePaths |-> IF p \in OriginPaths THEN InitialDisk[p] ELSE "c2"]
  /\ backupDisk = Empty
  /\ cacheDisk = Empty
  /\ files = {}
  /\ backups = <<>>
  /\ deleted_files = Empty
  /\ settings = Empty
  /\ pc = "idle"
  /\ loc = NoLoc
  /\ res = NoRes
  /\ delContent = [p \in OriginPaths |-> NoFile]
  /\ faults = 0
  /\ calls = 0
  /\ isWriting = FALSE
  /\ handlers = [h \in 1..MaxHandlers |-> [pc |-> "done", outcome |-> "none"]]
  /\ dbFile = [valid |-> TRUE, screenshots |-> <<>>]

\* The names of the artifacts: addToCache and getFromCache of any path.
NextNames ==
  \/ Tick
  \/ \E path \in CachePaths : AddToCache(path)
  \/ \E path \in CachePaths : GetFromCache(path)

SpecNames == InitNames /\ [][NextNames]_vars

\* The cache: the calls of CacheManager and `cleanup` of the CLI.
NextCache ==
  Tick \/ CacheActions \/ CleanupActions

SpecCache == Init /\ [][NextCache]_vars

\* ---------------------------------------------------------------- properties

\* A Backup row of path p whose backup file is on disk with the given content.
BackedUp(p, content) ==
  \E i \in DOMAIN backups :
    /\ backups[i].originalPath = p
    /\ backups[i].backupPath \in DOMAIN backupDisk
    /\ backupDisk[backups[i].backupPath] = content

\* The paths a finished delete operation reports as deleted.
ReportedDeleted ==
  IF res.cmd \in {"deleteFiles", "delete"} /\ res.done = "yes"
    THEN res.deleted ELSE {}

\* C1: after a delete operation (deleteFiles or `delete` of the CLI) that
\* reports p as deleted, a Backup row of p exists, a DeletedFileMarker of p
\* exists, no TrackedFile row of p exists and no file is at p.
\* `list` then `delete` refutes it: deleteCommand writes no marker and leaves
\* the TrackedFile row.
DeleteLeavesRecord ==
  \A p \in ReportedDeleted :
    /\ \E i \in DOMAIN backups : backups[i].originalPath = p
    /\ p \in DOMAIN deleted_files
    /\ p \notin TrackedPaths(files)
    /\ disk[p] = NoFile

\* What a step of a deletion must find in place before it removes anything.
WriteAheadStep ==
  \A p \in OriginPaths :
    /\ (disk[p] # NoFile /\ disk'[p] = NoFile) => BackedUp(p, disk[p])
    /\ (pc = "df_removeFromCache" /\ loc.file = p /\ files' # files)
         => BackedUp(p, delContent[p])

\* C2: deletion is write-ahead. A step of a deletion that removes the file at p
\* is taken only when a Backup row of p exists whose backup file holds the
\* content of p, and the step that removes the TrackedFile row of p only when
\* that backup of the removed content exists; this under every failure of a
\* call.
DeleteIsWriteAhead == [][WriteAheadStep]_vars

\* A deletion has unlinked a file whose backup is there.
DeleteIsWriteAheadWitness ==
  /\ pc = "df_addDeleted"
  /\ disk[loc.file] = NoFile
  /\ BackedUp(loc.file, delContent[loc.file])

\* The origin paths a finished restoration reports as restored: the
\* originalPath of the rows `restore` copied back, the marker paths restore()
\* restored.
ReportedRestored ==
  IF res.cmd = "restore" /\ res.done = "yes" THEN res.restored
  ELSE IF res.cmd = "restore()" /\ res.done = "yes"
    THEN {p \in DOMAIN res.from : res.from[p].source # "none"}
  ELSE {}

\* C3: after a deleted path p is restored (by path, by count, or by the scan
\* of the markers) the file at p has the content it had before the deletion,
\* a TrackedFile row of p exists and no DeletedFileMarker of p exists.
\* deleteFiles then `restore --path p` refutes it: the command copies the
\* file back and writes nothing to the database.
RestoreUndoesDelete ==
  \A p \in ReportedRestored :
    /\ disk[p] = delContent[p]
    /\ p \in TrackedPaths(files)
    /\ p \notin DOMAIN deleted_files

\* The turns of the running restore() whose backup file was missing.
MissingBackupTurns ==
  IF pc = "rs_item" THEN {p \in DOMAIN res.from : ~res.from[p].backup} ELSE {}

\* C4 as stated: a restoration of a path whose backup file is missing fails
\* and writes no TrackedFile row. A file of that name in the Trash refutes it:
\* restore() restores from there.
MissingBackupFails ==
  \A p \in MissingBackupTurns :
    /\ res.from[p].source = "none"
    /\ Has(res.failed, basename(p))
    /\ ~res.from[p].row

\* C4, amended: a restoration of a path whose backup file is missing fails and
\* writes no TrackedFile row, unless ~/.Trash holds a file of its base name.
MissingBackupFailsWithoutTrash ==
  \A p \in MissingBackupTurns :
    ~findInTrash(loc.trash, basename(p)) =>
      /\ res.from[p].source = "none"
      /\ Has(res.failed, basename(p))
      /\ ~res.from[p].row

\* restore() has failed a path whose backup file the retention sweep removed,
\* the Trash not holding its name.
MissingBackupFailsWitness ==
  \E p \in MissingBackupTurns :
    /\ ~findInTrash(loc.trash, basename(p))
    /\ Has(res.failed, basename(p))
    /\ \A i \in DOMAIN backups : backups[i].originalPath # p

\* The list the running sweep sorted, newest first, and what the step of
\* cleanupBackups leaves of a row of it.
RowKept(r) == \E j \in DOMAIN backups' : backups'[j] = r
FileKept(r) ==
  r.backupPath \in DOMAIN backupDisk => r.backupPath \in DOMAIN backupDisk'
RowGone(r) == \A j \in DOMAIN backups' : backups'[j] # r
FileGone(r) == r.backupPath \notin DOMAIN backupDisk'

\* What a step of cleanupBackups leaves of the newest rows of its list.
SweepKeepsNewestStep ==
  pc = "cleanupBackups" =>
    \A k \in DOMAIN loc'.sorted :
      k <= maxBackupSets => RowKept(loc'.sorted[k]) /\ FileKept(loc'.sorted[k])

\* C5: cleanupBackups removes neither the row nor the backup file of a backup
\* among the maxBackupSets newest of its sorted list, whatever its age.
\* Two rows of one backupPath refute it: the older, a candidate past the age
\* limit, takes the newest row and the file they share with it.
SweepKeepsNewest == [][SweepKeepsNewestStep]_vars

\* What a step of cleanupBackups without a failure removes.
SweepRemovesExpiredStep ==
  (pc = "cleanupBackups" /\ faults' = faults) =>
    \A k \in DOMAIN loc'.sorted :
      (k > maxBackupSets /\ now - loc'.sorted[k].createdAt > maxBackupAge)
        => RowGone(loc'.sorted[k]) /\ FileGone(loc'.sorted[k])

\* C6: cleanupBackups, when none of its calls fails for an outside reason,
\* removes the row and the backup file of every backup beyond position
\* maxBackupSets of its sorted list that is older than maxBackupAge.
\* A row whose file is gone already refutes it: unlink throws and the row stays.
SweepRemovesExpired == [][SweepRemovesExpiredStep]_vars

\* What a step of cleanupBackups leaves of the young rows beyond the newest.
SweepKeepsYoungStep ==
  pc = "cleanupBackups" =>
    \A k \in DOMAIN loc'.sorted :
      (k > maxBackupSets /\ now - loc'.sorted[k].createdAt < maxBackupAge)
        => RowKept(loc'.sorted[k]) /\ FileKept(loc'.sorted[k])

\* C7: cleanupBackups keeps the row and the backup file of every backup beyond
\* position maxBackupSets of its sorted list that is younger than maxBackupAge.
\* Two rows of one backupPath refute it again: the young row goes with the old.
SweepKeepsYoung == [][SweepKeepsYoungStep]_vars

\* The recorded lastCleanupTime is less than the interval ago.
WithinInterval ==
  /\ "lastCleanupTime" \in DOMAIN settings
  /\ now - getLastCleanupTime(settings) < cacheCleanupInterval

\* What such a check without force does.
EarlyCheckStep ==
  (pc = "check" /\ ~loc.force /\ WithinInterval) =>
    (pc' # "cleanupCache" /\ data' = data)

\* C10: checkAndCleanup called without force less than cacheCleanupInterval
\* after the recorded lastCleanupTime returns at once: no sweep starts, no
\* table and no directory changes, lastCleanupTime included.
EarlyCheckIsNoOp == [][EarlyCheckStep]_vars

\* `cleanup` without --force has returned from such a check: its hook ran the
\* sweep and recorded the time, its own check then did nothing.
EarlyCheckIsNoOpWitness ==
  /\ pc = "exit"
  /\ loc.cmd = "cleanup"
  /\ ~loc.force
  /\ ~loc.ran
  /\ WithinInterval

\* The rows a finished cacheManager.cleanup(maxAge) found older than its
\* cutoff, now - maxAge.
CleanupFoundOld ==
  IF res.cmd = "cleanup()" /\ res.done = "yes" THEN res.old ELSE {}

\* C8: after a cache cleanup with maximum age M, every tracked file whose
\* lastAccessed was older than now - M has lost its cache artifact and its
\* TrackedFile row.
\* addToCache, then cleanup() once the row is old, refutes it: cleanup looks
\* for an artifact named after the present time, and the real one stays.
CleanupRemovesOld ==
  \A p \in CleanupFoundOld :
    /\ p \notin TrackedPaths(files)
    /\ findCacheFile(cacheDisk, p) = {}

\* The step leaves the row of p as it is, and an artifact of p on disk if
\* there is one.
CacheUntouched(p) ==
  /\ p \in TrackedPaths(files')
  /\ getFile(files', p) = getFile(files, p)
  /\ findCacheFile(cacheDisk, p) # {} => findCacheFile(cacheDisk', p) # {}

\* What a step of either cache cleanup leaves of the recently accessed files.
CleanupKeepsRecentStep ==
  \A p \in TrackedPaths(files) :
    /\ (pc = "cleanupCache" /\ now - getFile(files, p).lastAccessed <= maxCacheAge)
         => CacheUntouched(p)
    /\ (pc = "idle" /\ res'.cmd = "cleanup()"
           /\ now - getFile(files, p).lastAccessed <= res'.maxAge)
         => CacheUntouched(p)

\* C9: a cache cleanup (cleanupCache of the retention sweep, or
\* cacheManager.cleanup) leaves the cache artifact and the TrackedFile row of
\* every tracked file whose lastAccessed is within the age window as they are.
\* getFromCache of an old artifact, then the sweep, refutes it: cleanupCache
\* goes by the mtime of the artifact, not by lastAccessed.
CleanupKeepsRecent == [][CleanupKeepsRecentStep]_vars

\* ---------------------------------------------------------- properties, 2

\* What the step of `delete` that selects the files must give for a valid
\* count n and T tracked files: min(n, T) of them, none accessed less
\* recently than a file left out, the shortfall told when n > T, no exit(1).
DeleteSelectsStep ==
  LET n == requestedCount(loc.arg)
      T == Cardinality(TrackedPaths(files))
  IN (pc = "delete" /\ n > 0 /\ T > 0) =>
       /\ pc' = "dc_next"
       /\ Len(loc'.queue) = Min(n, T)
       /\ \A i \in DOMAIN loc'.queue : \A q \in TrackedPaths(files) :
            (\A j \in DOMAIN loc'.queue : loc'.queue[j] # q)
              => getFile(files, loc'.queue[i]).lastAccessed >= getFile(files, q).lastAccessed
       /\ loc'.shortfall = (n > T)

\* C11: `delete` with requested count N selects exactly the min(N, T) tracked
\* files of greatest lastAccessed, T the number of tracked files; with N > T
\* it takes all T, reports the shortfall and does not fail.
\* More tracked files than the default limit of getRecentFiles refute it: the
\* command sees only the first `limit` of them, takes those, and reports a
\* shortfall although the files are there.
DeleteSelectsMostRecent == [][DeleteSelectsStep]_vars

\* The positions of deleteFiles inside the processing of one file.
InFile == pc \in {DeleteFilesOrder[i] : i \in DOMAIN DeleteFilesOrder}

\* What a step of deleteFiles does to the batch: the loop ends only when the
\* list is used up; an existing path is never skipped; the processing of a file
\* ends with that file in one of the two result sets and nothing else moved,
\* in `deleted` when none of its calls failed.
BatchStep ==
  /\ (InFile \/ pc = "df_next") =>
       (pc' = "idle" => (pc = "df_next" /\ loc.queue = <<>>))
  /\ (pc = "df_next" /\ loc.queue # <<>> /\ disk[Head(loc.queue)] # NoFile) =>
       (pc' = DeleteFilesOrder[1] /\ loc'.file = Head(loc.queue))
  /\ (InFile /\ pc' = "df_next") =>
       /\ (loc.file \in res'.deleted) # (loc.file \in res'.failed)
       /\ res'.deleted \ {loc.file} = res.deleted
       /\ res'.failed \ {loc.file} = res.failed
       /\ faults' = faults => loc.file \in res'.deleted
  /\ InFile => (pc' = "df_next" \/ res' = res)

\* C12: deleteFiles processes every path of its list whatever fails on the
\* others: each path that exists ends in exactly one of `deleted` and `failed`,
\* and a failure on one path changes the outcome of no other.
DeleteFilesIsolatesFailures == [][BatchStep]_vars

\* A batch has ended whose last file was deleted after another one had failed.
DeleteFilesIsolatesFailuresWitness ==
  /\ res.cmd = "deleteFiles"
  /\ pc = "df_next"
  /\ loc.queue = <<>>
  /\ "file" \in DOMAIN loc
  /\ loc.file \in res.deleted
  /\ res.failed # {}

\* C13: in every state, also after a retention sweep that failed or was cut
\* short, the file at the backupPath of every Backup row is on disk.
\* A sweep whose removeBackup fails refutes it: cleanupBackups has unlinked
\* the file by then, and the row stays.
BackupRowsHaveFiles ==
  \A i \in DOMAIN backups : backups[i].backupPath \in DOMAIN backupDisk

\* A step that is a call of getFromCache for a tracked path whose origin file
\* is gone, none of its calls failing for an outside reason.
ReadsGone(p) ==
  /\ pc = "idle"
  /\ calls' # calls
  /\ res'.cmd = "getFromCache"
  /\ res'.path = p
  /\ p \in TrackedPaths(files)
  /\ disk[p] = NoFile
  /\ faults' = faults

\* The call removes the row and returns undefined.
SelfHeals(p) == p \notin TrackedPaths(files') /\ res'.done = "undefined"

\* C14 as stated: getFromCache(p) for a tracked path whose origin file no
\* longer exists removes the TrackedFile row of p and returns not-found,
\* raising nothing. A cache artifact of p refutes it: the call finds it,
\* never touches the origin, updates the access time and returns the artifact.
ReadOfGoneSelfHealsStep ==
  \A p \in OriginPaths : ReadsGone(p) => SelfHeals(p)

ReadOfGoneSelfHeals == [][ReadOfGoneSelfHealsStep]_vars

\* The same for the paths of which the cache directory holds no artifact.
ReadOfGoneUncachedStep ==
  \A p \in OriginPaths :
    (ReadsGone(p) /\ findCacheFile(cacheDisk, p) = {}) => SelfHeals(p)

\* C14, amended: getFromCache(p) for a tracked path whose origin file no
\* longer exists and of which no cache artifact exists removes the
\* TrackedFile row of p and returns not-found, raising nothing.
ReadOfGoneUncachedSelfHeals == [][ReadOfGoneUncachedStep]_vars

\* getFromCache has found the row of a deleted file, no artifact and no
\* origin, and has returned undefined with the row removed.
ReadOfGoneUncachedWitness ==
  /\ res.cmd = "getFromCache"
  /\ res.file
  /\ res.done = "undefined"
  /\ disk[res.path] = NoFile
  /\ findCacheFile(cacheDisk, res.path) = {}
  /\ res.path \notin TrackedPaths(files)

\* What a step of either cache cleanup leaves unprocessed: of the expired
\* artifacts of cleanupCache, and of the old rows of cleanup(), no more than
\* the items on which a call failed.
SweepIsolatesStep ==
  /\ pc = "cleanupCache" =>
       Cardinality(ExpiredArtifacts(cacheDisk, now) \cap DOMAIN cacheDisk')
         <= faults' - faults
  /\ (pc = "idle" /\ calls' # calls /\ res'.cmd = "cleanup()") =>
       Cardinality(res'.old \cap TrackedPaths(files')) <= faults' - faults

\* C15: in a cache cleanup sweep a failure on one item (stat, unlink or the
\* removal of the row) does not halt the sweep; every other expired item is
\* still processed.
\* Two expired items and a failure on the first refute it: in cleanupCache and
\* in cleanup() one try encloses the whole loop, and the catch ends it.
CacheSweepIsolatesFailures == [][SweepIsolatesStep]_vars

\* The time recorded as lastCleanupTime, 0 when none is.
Recorded(tbl) ==
  IF "lastCleanupTime" \in DOMAIN tbl THEN parseInt(tbl["lastCleanupTime"]) ELSE 0

\* What the steps of checkAndCleanup do when the reading and the writing of
\* the setting do not fail: the sweep starts exactly when force is set or the
\* interval has passed; once started it goes through its three parts, whatever
\* fails in them, and then the current time is recorded.
CheckDecidesStep ==
  /\ (pc = "check" /\ faults' = faults) =>
       ((pc' = "cleanupCache")
          <=> (loc.force \/ now - Recorded(settings) >= cacheCleanupInterval))
  /\ pc = "cleanupCache" => pc' = "cleanupBackups"
  /\ pc = "cleanupBackups" => pc' = "vacuum"
  /\ pc = "vacuum" => pc' = "updateTime"
  /\ (pc = "updateTime" /\ faults' = faults) => Recorded(settings') = now
  /\ pc \in {"check", "cleanupCache", "cleanupBackups", "vacuum"} =>
       settings' = settings

\* C16: checkAndCleanup(force) runs the sweep if and only if force is set or
\* now - lastCleanupTime >= the cleanup interval, an unset lastCleanupTime
\* counting as 0, and after every sweep it records the current time as
\* lastCleanupTime.
CheckRunsWhenDue == [][CheckDecidesStep]_vars

\* `cleanup --force` has swept and recorded the time although its hook had
\* recorded it just before; the time recorded is the current one.
CheckRunsWhenDueWitness ==
  /\ pc = "exit"
  /\ loc.cmd = "cleanup"
  /\ loc.force
  /\ loc.ran
  /\ Recorded(settings) = now

\* What a call on a DatabaseManager whose init() has not run must do.
UninitializedStep ==
  (pc = "store" /\ calls' # calls /\ loc.db = "null") =>
    /\ res'.done = "error"
    /\ res'.err = "notInitialized"
    /\ data' = data

\* C17: every operation of the persistence layer called before init() has
\* completed fails with a not-initialized error and changes no state.
\* vacuum() before init() refutes it: `this.db?.run` does nothing and the call
\* returns; getRecentlyDeletedFiles() catches its own error and returns [].
UninitializedFails == [][UninitializedStep]_vars

\* What a call of init() does to the rows, and what a call of an operation
\* gives once init() has returned: no not-initialized error.
InitStep ==
  /\ (pc = "store" /\ pc' = "store" /\ calls' = calls /\ res'.op = "init") =>
       /\ files' = files
       /\ backups' = backups
       /\ deleted_files' = deleted_files
       /\ settings' = settings
       /\ res'.done = "yes" => loc'.db = "open"
  /\ (pc = "store" /\ calls' # calls /\ loc.db = "open") =>
       res'.err # "notInitialized"

\* C18: init() is idempotent: called any number of times, at any point of a
\* run, it leaves every row of files, backups, deleted_files and settings as it
\* is, and the store usable.
InitIsIdempotent == [][InitStep]_vars

\* init() has returned on a store whose tables all hold rows.
InitIsIdempotentWitness ==
  /\ pc = "store"
  /\ res.op = "init"
  /\ res.done = "yes"
  /\ loc.db = "open"
  /\ files # {}
  /\ backups # <<>>
  /\ settings # Empty

\* C19: in every state there is at most one TrackedFile row per origin path;
\* adding a path that is tracked already (by addFile, addToCache, list or
\* restore) replaces its row and makes no second one.
OneRowPerPath == \A r, q \in files : r.path = q.path => r = q

\* addToCache has added a path that had a row and an older artifact: its row
\* is the new one.
OneRowPerPathWitness ==
  /\ res.cmd = "addToCache"
  /\ res.done = "yes"
  /\ res.tracked
  /\ getFile(files, res.path).lastAccessed = now
  /\ \E f \in findCacheFile(cacheDisk, res.path) : cacheDisk[f].mtime < now

\* What a call of addToCache that returns does to the artifacts of its path:
\* one more than before, the earlier ones as they were.
AddMakesArtifactStep ==
  (pc = "idle" /\ calls' # calls /\ res'.cmd = "addToCache" /\ res'.done = "yes") =>
    LET before == findCacheFile(cacheDisk, res'.path)
        after == findCacheFile(cacheDisk', res'.path)
    IN /\ Cardinality(after) = Cardinality(before) + 1
       /\ \A f \in before : f \in after /\ cacheDisk'[f] = cacheDisk[f]

\* C20: repeated calls of addToCache for one origin path give pairwise
\* distinct artifact names; no call reuses or overwrites the artifact of an
\* earlier call.
\* Two calls at one reading of Date.now() refute it: the name is the path and
\* the millisecond, and the second copy goes over the first.
AddToCacheNamesDistinct == [][AddMakesArtifactStep]_vars

\* ---------------------------------------------------------- properties, 3

\* C21: after a deletion that reports p as deleted, the cache directory holds
\* no artifact of p.
\* addToCache(p), then deleteFiles([p]) refutes it: removeFromCache deletes the
\* row only, and nothing calls deleteFromCache.
DeleteRemovesArtifact ==
  \A p \in ReportedDeleted : findCacheFile(cacheDisk, p) = {}

\* The number of entries restore() has reported so far.
Reports(r) == Len(r.restored) + Len(r.failed)

\* One step of a restoration in batches. restore() starts with the markers it
\* read and no report; each turn of either loop, however it ends, leaves the
\* loop at the next item, and a turn of restore() adds exactly one entry, the
\* target path to restored or the base name to failed; the return adds none.
BatchRestoreStep ==
  /\ (pc = "idle" /\ pc' = "rs_item") =>
        /\ {loc'.queue[i].path : i \in DOMAIN loc'.queue} = DOMAIN deleted_files
        /\ Len(loc'.queue) = Cardinality(DOMAIN deleted_files)
        /\ Reports(res') = 0
  /\ (pc = "rs_item" /\ loc.queue # <<>>) =>
        LET file == Head(loc.queue) IN
        /\ pc' = "rs_item"
        /\ loc'.queue = Tail(loc.queue)
        /\ \/ /\ res'.restored = Append(res.restored, join(targetDir, basename(file.path)))
              /\ res'.failed = res.failed
           \/ /\ res'.failed = Append(res.failed, basename(file.path))
              /\ res'.restored = res.restored
  /\ (pc = "rs_item" /\ loc.queue = <<>>) =>
        /\ res'.restored = res.restored
        /\ res'.failed = res.failed
        /\ res'.done = "yes"
  /\ (pc = "rn_item" /\ loc.queue # <<>>) =>
        /\ pc' = "rn_item"
        /\ loc'.queue = Tail(loc.queue)

\* C22: in a batch restore a failed item does not end the batch, the items
\* after it are still attempted, and restore() reports each marker it read
\* exactly once, as restored or as failed.
BatchRestoreIsolatesFailures == [][BatchRestoreStep]_vars

\* restore() has returned with a failure and a restoration, of two markers
\* that share their base name; the marker that failed is the newer one, so
\* its turn came first.
BatchRestoreWitness ==
  /\ res.cmd = "restore()"
  /\ res.done = "yes"
  /\ Len(res.failed) = 1
  /\ Len(res.restored) = 1
  /\ basename(res.restored[1]) = res.failed[1]
  /\ \E p, q \in DOMAIN res.from :
       /\ res.from[p].source = "none"
       /\ res.from[q].source # "none"
       /\ p \in DOMAIN deleted_files
       /\ \E i \in DOMAIN backups :
            /\ backups[i].originalPath = q
            /\ backups[i].createdAt < deleted_files[p].deletedAt

\* A step of an invocation of `list`, from after its start to its end, leaves
\* the three directories as they are.
ListStep ==
  loc.cmd = "list" =>
    /\ disk' = disk
    /\ cacheDisk' = cacheDisk
    /\ backupDisk' = backupDisk

\* C23: an invocation of `list` modifies and deletes no file: the origin
\* files, the cache artifacts and the backup files are the same after it as
\* before.
\* An artifact older than maxCacheAge and a cleanup that is due refute it: the
\* preAction hook sweeps before the action of `list` runs.
ListTouchesNoFile == [][ListStep]_vars

\* The turn of deleteFiles for a path that is not on disk: the loop goes to
\* the next path, the path enters neither list, and no Backup row, marker or
\* backup file is written. Every other step of the call adds to the lists the
\* file in work only, which was on disk when its turn began.
SkipStep ==
  /\ (pc = "df_next" /\ loc.queue # <<>> /\ disk[Head(loc.queue)] = NoFile) =>
        LET p == Head(loc.queue) IN
        /\ pc' = "df_next"
        /\ loc'.queue = Tail(loc.queue)
        /\ p \notin res'.deleted \cup res'.failed
        /\ backups' = backups
        /\ deleted_files' = deleted_files
        /\ backupDisk' = backupDisk
  /\ (pc \in {"df_next"} \cup Range(DeleteFilesOrder) /\ res'.cmd = "deleteFiles") =>
        (res'.deleted \cup res'.failed) \ (res.deleted \cup res.failed)
          \subseteq (IF pc = "df_next" THEN {} ELSE {loc.file})

\* C24: deleteFiles skips an input path that is not on disk: the path is put
\* in neither deleted nor failed, and no Backup row, DeletedFileMarker or
\* backup file is made for it.
DeleteFilesSkipsMissing == [][SkipStep]_vars

\* deleteFiles of a path deleted before has returned: nothing deleted, nothing
\* failed, and the marker and the one Backup row are those of the first call.
DeleteFilesSkipsMissingWitness ==
  /\ res.cmd = "deleteFiles"
  /\ res.done = "yes"
  /\ res.deleted = {}
  /\ res.failed = {}
  /\ calls = 2
  /\ Len(backups) = 1
  /\ backups[1].originalPath \in DOMAIN deleted_files
  /\ files = {}
  /\ cacheDisk = Empty

\* C25: between the calls, after any deletions and restorations, the
\* DeletedFileMarker of a path that is gone from disk, when there is one, has
\* the backupPath of the newest Backup row of that path.
\* A second deletion of a restored path whose addDeletedFile fails, on a later
\* day, refutes it: the new Backup row is written, the marker stays the old.
MarkerIsNewestDeletion ==
  pc = "idle" =>
    \A p \in DOMAIN deleted_files :
      \A sorted \in getBackupsOf(backups, p) :
        (sorted # <<>> /\ disk[p] = NoFile) =>
          deleted_files[p].backupPath = sorted[1].backupPath

\* The markers whose backup file is gone, together with every Backup row of
\* that backupPath.
PurgedMarkers ==
  {p \in DOMAIN deleted_files :
     /\ deleted_files[p].backupPath \notin DOMAIN backupDisk
     /\ \A i \in DOMAIN backups :
          backups[i].backupPath # deleted_files[p].backupPath}

\* The step of cleanupBackups leaves everything but the Backup rows and the
\* backup files as it is, the markers included.
RetentionFrameStep ==
  pc = "cleanupBackups" =>
    /\ disk' = disk
    /\ cacheDisk' = cacheDisk
    /\ files' = files
    /\ settings' = settings
    /\ deleted_files' = deleted_files

store == <<files, backups, deleted_files, settings>>

\* One step around a cleanup run: a part starts only from the end of the part
\* before it, and its end starts the part after it; the run starts from the
\* decision of checkAndCleanup and ends with the update of lastCleanupTime; and
\* the step of vacuum writes nothing else to the store.
CleanupOrderStep ==
  /\ pc' = "cleanupCache" =>
        (pc = "check" /\ CleanupDue(loc.force, now, getLastCleanupTime(settings)))
  /\ pc' = "cleanupBackups" <=> pc = "cleanupCache"
  /\ pc' = "vacuum" <=> pc = "cleanupBackups"
  /\ pc' = "updateTime" <=> pc = "vacuum"
  /\ pc = "updateTime" => (pc' \in {loc.then, "idle"} /\ pc' # "updateTime")
  /\ pc = "vacuum" => store' = store
  /\ settings' # settings => pc = "updateTime"

\* C27: within one cleanup run the parts run strictly in the order cache
\* sweep, backup sweep, vacuum, update of lastCleanupTime, each starting only
\* when the one before it has finished, so that vacuum overlaps no other write
\* of the store by the same process.
CleanupRunsInOrder == [][CleanupOrderStep]_vars

\* A cleanup run has gone through all its parts: the backup sweep has purged a
\* backup and the time of the run is recorded.
CleanupRunsInOrderWitness ==
  /\ loc.cmd = "cleanup"
  /\ loc.ran
  /\ getLastCleanupTime(settings) = now
  /\ PurgedMarkers # {}

\* The step of vacuumDatabase in which VACUUM fails goes on to the update of
\* lastCleanupTime with the error logged and nothing raised; and the update
\* that follows, unless it fails itself, records the time of the run and
\* hands over to the command.
VacuumFailureStep ==
  /\ (pc = "vacuum" /\ faults' # faults) =>
        /\ pc' = "updateTime"
        /\ loc'.vacuum = "error"
        /\ res' = res
        /\ data' = data
  /\ (pc = "updateTime" /\ loc.vacuum = "error" /\ faults' = faults) =>
        /\ getLastCleanupTime(settings') = now
        /\ pc' = loc.then
        /\ res' = res

\* C28: a failure of vacuum in a cleanup run is caught and logged:
\* checkAndCleanup does not raise because of it and lastCleanupTime is still
\* updated.
VacuumFailureIsCaught == [][VacuumFailureStep]_vars

\* A cleanup run whose vacuum failed has recorded its time.
VacuumFailureIsCaughtWitness ==
  /\ loc.cmd = "cleanup"
  /\ pc \in {"cleanup", "exit"}
  /\ loc.vacuum = "error"
  /\ loc.ran
  /\ getLastCleanupTime(settings) = now
  /\ res.done = "no"

\* The artifacts of an origin in a cache directory: the files that have a
\* name getCachePath gives the origin.
ArtifactsOf(dir, p) ==
  {f \in DOMAIN dir : \E t \in 0..MaxTime : f = getCachePath(p, t)}

\* One call of getFromCache: with an artifact of the path there, the cache
\* directory stays as it is and the artifact returned is one of those; a new
\* artifact is made only when there was none, and is then the only one and the
\* one returned.
GetReusesStep ==
  (pc = "idle" /\ calls' # calls /\ res'.cmd = "getFromCache") =>
    LET p == res'.path
        before == ArtifactsOf(cacheDisk, p)
        after == ArtifactsOf(cacheDisk', p)
    IN /\ before # {} => cacheDisk' = cacheDisk
       /\ cacheDisk' # cacheDisk => (before = {} /\ Cardinality(after) = 1)
       /\ res'.done = "yes" => res'.cachePath \in after
       /\ Cardinality(after) > 1 => Cardinality(before) = Cardinality(after)

\* C29: getFromCache(p) returns the artifact that exists for p when there is
\* one and makes a new one only when there is none, so that no call of
\* getFromCache raises the number of artifacts of an origin above one.
GetFromCacheReuses == [][GetReusesStep]_vars

\* getFromCache has returned the one artifact of its path, made before the
\* call.
GetFromCacheReusesWitness ==
  /\ res.cmd = "getFromCache"
  /\ res.done = "yes"
  /\ ArtifactsOf(cacheDisk, res.path) = {res.cachePath}
  /\ cacheDisk[res.cachePath].mtime < now

\* getFromCache has made the artifact it returned: it is the second call,
\* after a `list` that wrote the rows of both files of the Desktop, and the
\* only artifact in the cache directory.
GetFromCacheMakesWitness ==
  /\ res.cmd = "getFromCache"
  /\ res.done = "yes"
  /\ calls = 2
  /\ Cardinality(files) = 2
  /\ DOMAIN cacheDisk = {res.cachePath}
  /\ res.cachePath = getCachePath(res.path, now)

\* One call of getFromCache: when it returns an artifact, the row of the path
\* has the current time as lastAccessed and the other rows are as before; when
\* it returns undefined, every row that is left is as it was.
GetRefreshesStep ==
  (pc = "idle" /\ calls' # calls /\ res'.cmd = "getFromCache") =>
    LET p == res'.path IN
    /\ res'.done = "yes" =>
          /\ p \in TrackedPaths(files')
          /\ getFile(files', p).lastAccessed = now
          /\ {r \in files' : r.path # p} = {r \in files : r.path # p}
    /\ res'.done = "undefined" => files' \subseteq files

\* C30: every call of getFromCache(p) that returns an artifact sets
\* lastAccessed of the TrackedFile row of p to the current time; a call that
\* returns not-found refreshes nothing.
GetFromCacheRefreshes == [][GetRefreshesStep]_vars

\* getFromCache has returned an artifact for a row that was last accessed
\* before the call, at the time the artifact was made.
GetFromCacheRefreshesWitness ==
  /\ res.cmd = "getFromCache"
  /\ res.done = "yes"
  /\ res.cachePath \in DOMAIN cacheDisk
  /\ getFile(files, res.path).lastAccessed = now
  /\ cacheDisk[res.cachePath].mtime < now
  /\ \E r \in files : r.path # res.path /\ r.lastAccessed < now

\* getFromCache has returned not-found for a path of which it removed the
\* row; the row of the other file keeps its earlier time.
GetFromCacheNotFoundWitness ==
  /\ res.cmd = "getFromCache"
  /\ res.done = "undefined"
  /\ res.file
  /\ \E r \in files : r.lastAccessed < now

\* ---------------------------------------------------------- properties, 4

\* One call of removeFromCache that returns: the rows of the other paths stay,
\* the row of the path is gone, and the directories, the Backup rows and the
\* markers are as before; without a row of the path nothing changes at all.
RemoveFromCacheStep ==
  (pc = "idle" /\ calls' # calls /\ res'.cmd = "removeFromCache"
     /\ res'.done = "yes") =>
    LET p == res'.path IN
    /\ files' = {r \in files : r.path # p}
    /\ p \notin TrackedPaths(files) => files' = files
    /\ cacheDisk' = cacheDisk
    /\ backupDisk' = backupDisk
    /\ disk' = disk
    /\ backups' = backups
    /\ deleted_files' = deleted_files

\* C31: removeFromCache(p) removes the TrackedFile row of p and nothing else:
\* the cache directory, the Backup rows and the DeletedFileMarkers are
\* unchanged, and the call changes nothing when p is not tracked.
RemoveFromCacheRemovesRowOnly == [][RemoveFromCacheStep]_vars

\* removeFromCache has removed the row of a path whose artifact is still in
\* the cache directory, next to the row of another path.
RemoveFromCacheWitness ==
  /\ res.cmd = "removeFromCache"
  /\ res.done = "yes"
  /\ res.tracked
  /\ res.path \notin TrackedPaths(files)
  /\ findCacheFile(cacheDisk, res.path) # {}
  /\ files # {}

\* One call of addToCache: when the origin file is not there the call ends
\* with the error and no artifact; and a call that ends with an error, for
\* whatever reason, leaves the rows as they were.
AddFailsStep ==
  (pc = "idle" /\ calls' # calls /\ res'.cmd = "addToCache") =>
    /\ disk[res'.path] = NoFile =>
          (res'.done = "error" /\ cacheDisk' = cacheDisk)
    /\ res'.done = "error" => files' = files

\* C32: when addToCache(p, size) cannot read the origin file it fails with an
\* error and neither creates nor updates the TrackedFile row of p.
AddToCacheFailsCleanly == [][AddFailsStep]_vars

\* addToCache has failed for a tracked path whose origin is gone; the row
\* keeps its earlier access time.
AddToCacheFailsCleanlyWitness ==
  /\ res.cmd = "addToCache"
  /\ res.done = "error"
  /\ disk[res.path] = NoFile
  /\ res.path \in TrackedPaths(files)
  /\ getFile(files, res.path).lastAccessed < now

\* The handlers between the reading and the writing of the document.
InCritical == {h \in Handlers : handlers[h].pc \in {"read", "write"}}

\* C33: under every interleaving of 'add' events, at most one handler at a
\* time is between reading and writing the shared document.
WatchMutualExclusion == Cardinality(InCritical) <= 1

\* A handler is about to write the document while the two others wait.
WatchMutualExclusionWitness ==
  \E h \in Handlers :
    /\ handlers[h].pc = "write"
    /\ \A g \in Handlers \ {h} : handlers[g].pc = "wait"

\* C38: under every interleaving of 'add' events the document never holds
\* two screenshot entries of the same path.
WatchNoDuplicates ==
  \A i, j \in DOMAIN dbFile.screenshots :
    dbFile.screenshots[i].path = dbFile.screenshots[j].path => i = j

\* The document holds the entries of both screenshots, and a handler started
\* by a further event of one of them has found its entry there.
WatchNoDuplicatesWitness ==
  /\ Len(dbFile.screenshots) = 2
  /\ \E h \in Handlers : handlers[h].pc = "done" /\ handlers[h].outcome = "present"
  /\ \E h \in Handlers : handlers[h].pc = "read"

\* The flag is set exactly while a handler is between its read and the end of
\* its run.
FlagReleased == isWriting <=> InCritical # {}

\* The handler h waits on the flag.
Waiting(h) == handlers[h].pc = "wait"

\* The handler h is in its critical section.
Entered(h) == handlers[h].pc \in {"read", "write"}

\* C39: after any handler run (entry written, entry present, or error) the
\* flag is false, and once events stop arriving every handler that waits on
\* the flag eventually enters its critical section.
WatchReleasesFlag ==
  /\ []FlagReleased
  /\ (<>[][~AddActions]_vars) => \A h \in Handlers : Waiting(h) ~> Entered(h)

\* C39 as stated, for every stream of events: with events that keep arriving
\* and taking the flag between two polls, a handler waits forever.
WatchEveryWaiterEnters ==
  /\ []FlagReleased
  /\ \A h \in Handlers : Waiting(h) ~> Entered(h)

\* A handler has ended in error and left the flag clear, the next one has
\* entered, and a third still waits.
WatchReleasesFlagWitness ==
  \E h, g, w \in Handlers :
    /\ handlers[h].pc = "done" /\ handlers[h].outcome = "error"
    /\ Entered(g)
    /\ Waiting(w)

\* C34: deletions of distinct origin paths get distinct backupPaths, so that
\* the backup file of a Backup row is never overwritten by the deletion of
\* another origin path; stated for the runs in which no call has failed.
BackupPathsDistinct ==
  \A i, j \in DOMAIN backups :
    /\ faults = 0
    /\ backups[i].originalPath # backups[j].originalPath
    /\ disk[backups[i].originalPath] = NoFile
    /\ disk[backups[j].originalPath] = NoFile
    => backups[i].backupPath # backups[j].backupPath

\* C36: every path that deleteFiles reports in failed still has its origin
\* file on disk: a deletion reported as failed has not removed the origin.
FailedKeepsOrigin ==
  res.cmd = "deleteFiles" => \A p \in res.failed : disk[p] # NoFile

\* The table holds a Backup row of the path made at time t.
RowOf(p, t) ==
  \E i \in DOMAIN backups :
    backups[i].originalPath = p /\ backups[i].createdAt = t

\* That row ranks beyond the count limit, maxBackupSets rows or more being
\* newer, and is older than the age limit.
Overdue(p, t) ==
  /\ RowOf(p, t)
  /\ BackupExpired(now, t)
  /\ Cardinality({i \in DOMAIN backups : backups[i].createdAt > t}) >= maxBackupSets

\* The backup file of that row is on disk.
FileOf(p, t) ==
  \A i \in DOMAIN backups :
    backups[i].originalPath = p /\ backups[i].createdAt = t
      => backups[i].backupPath \in DOMAIN backupDisk

\* C37: every Backup row that ranks beyond the count limit and is older than
\* the age limit is eventually removed by repeated retention sweeps, whether
\* or not its backup file is still on disk: no row stays overdue for ever.
OverdueBackupsAreRemoved ==
  \A p \in OriginPaths, t \in StartTime..MaxTime : Overdue(p, t) ~> ~Overdue(p, t)

\* The same for the rows whose backup file is on disk.
OverdueBackupsWithFileAreRemoved ==
  \A p \in OriginPaths, t \in StartTime..MaxTime :
    (Overdue(p, t) /\ FileOf(p, t)) ~> ~(Overdue(p, t) /\ FileOf(p, t))

\* C35: getFromCache(p) never returns a cache artifact that was created from
\* a different origin path: the artifact it returns holds the content of p,
\* the origin files being the ones of the first invocation throughout.
GetFromCacheOwnArtifact ==
  (/\ res.cmd = "getFromCache"
   /\ res.done = "yes"
   /\ res.cachePath \in DOMAIN cacheDisk)
    => cacheDisk[res.cachePath].content = disk[res.path]

====
